---------------------------- MODULE Spec2Model ----------------------------
(***************************************************************************)
(* A model of nosqlite (src/nosqlite.py): the document-to-relational       *)
(* mapping layer of Collection on top of an SQLite database reached        *)
(* through Client.__call__ / LocalServer.execute.                          *)
(*                                                                         *)
(* Python values and SQLite scalars are records [t, v]: t is the type      *)
(* ("none", "bool", "int", "float", "str", "unicode", "list", "row") and   *)
(* v a sequence of integers (the number, the character codes of a text,    *)
(* the elements of a list).  "error" stands for a raised exception.        *)
(***************************************************************************)
EXTENDS Integers, Sequences, FiniteSets, TLC

VARIABLES
    tables,     \* the SQLite database file: table name -> table
    collname,   \* Collection.name of the handle the application holds
    op,         \* the call made last: its name, arguments and outcome
    cursor,     \* the generator returned by Collection.find
    clients,    \* concurrent clients, each inside one call of insert or update
    server      \* LocalServer / Server: the connections it has opened

vars == <<tables, collname, op, cursor, clients, server>>

-----------------------------------------------------------------------------
(* Bounds of the model *)

MaxInt == 2
MaxTextLen == 2
MaxListLen == 2
MaxRows == 2            \* rows in the database
MaxBatch == 2           \* documents in one batch insert
MaxBatchSize == 2       \* batch_size of find and count
MaxGroupInput == 3      \* documents in the list given to the Batch Grouper
MaxFindRows == 3        \* documents in the collection a generator reads

-----------------------------------------------------------------------------
(* Values *)

V(t, v) == [t |-> t, v |-> v]
NoneV == V("none", << >>)
IntV(n) == V("int", <<n>>)
BoolV(b) == V("bool", <<b>>)
FloatV(h) == V("float", <<h>>)          \* the float h/2
StrV(s) == V("str", s)
UnicodeV(s) == V("unicode", s)
ListV(l) == V("list", l)
RowV(r) == V("row", r)
ErrorV == V("error", << >>)

\* Python's ==: numbers compare by value across bool, int and float, texts
\* by their characters across str and unicode, everything else by type too.
Numeric(x) == x.t \in {"bool", "int", "float"}
NumTwice(x) == IF x.t = "float" THEN x.v[1] ELSE 2 * x.v[1]
Textual(x) == x.t \in {"str", "unicode"}
PyEq(x, y) ==
    IF x.t = "error" \/ y.t = "error" THEN FALSE
    ELSE IF Numeric(x) /\ Numeric(y) THEN NumTwice(x) = NumTwice(y)
    ELSE IF Textual(x) /\ Textual(y) THEN x.v = y.v
    ELSE x.t = y.t /\ x.v = y.v

\* '__pickle' as character codes
Sentinel == <<95, 95, 112, 105, 99, 107, 108, 101>>

StartsWith(s, p) == Len(s) >= Len(p) /\ SubSeq(s, 1, Len(p)) = p

\* base64.b64encode(zlib.compress(cPickle.dumps(x, 2))): an injective text
\* encoding of any value: a type letter, then one character per element.
TypeLetter(t) ==
    CASE t = "none" -> 78 [] t = "bool" -> 66 [] t = "int" -> 73
      [] t = "float" -> 70 [] t = "str" -> 83 [] t = "unicode" -> 85
      [] t = "list" -> 76 [] OTHER -> 63
LetterType(c) ==
    CASE c = 78 -> "none" [] c = 66 -> "bool" [] c = 73 -> "int"
      [] c = 70 -> "float" [] c = 83 -> "str" [] c = 85 -> "unicode"
      [] c = 76 -> "list" [] OTHER -> "error"
Dumps(x) == <<TypeLetter(x.t)>> \o [i \in 1..Len(x.v) |-> x.v[i] + 1]

\* cPickle.loads(zlib.decompress(base64.b64decode(s))): raises on a text that
\* is no encoding of a value.
Loads(s) ==
    IF Len(s) = 0 \/ LetterType(s[1]) = "error" THEN ErrorV
    ELSE LET t == LetterType(s[1])
             v == [i \in 1..(Len(s) - 1) |-> s[i + 1] - 1]
         IN IF (t = "none" /\ Len(v) # 0) \/ (t \in {"bool", "int", "float"} /\ Len(v) # 1)
            THEN ErrorV
            ELSE V(t, v)

_coerce_(x) ==
    IF x.t = "bool" THEN V("int", x.v)
    ELSE IF x.t \in {"str", "int", "float"} THEN x
    ELSE IF x.t = "none" THEN x
    ELSE IF x.t = "unicode" THEN V("str", x.v)
    ELSE V("str", Sentinel \o Dumps(x))

_coerce_back_(x) ==
    IF Textual(x) /\ StartsWith(x.v, Sentinel)
    THEN Loads(SubSeq(x.v, Len(Sentinel) + 1, Len(x.v)))
    ELSE x


-----------------------------------------------------------------------------
(* Texts: a Python str is the sequence of its character codes *)

\* The names and words of the model as texts
Chars(s) ==
    CASE s = "a" -> <<97>>
      [] s = "b" -> <<98>>
      [] s = "c" -> <<99>>
      [] s = "x" -> <<120>>
      [] s = "y" -> <<121>>
      [] s = "z" -> <<122>>
      [] s = "q\"" -> <<113, 34>>
      [] s = "ab" -> <<97, 98>>
      [] s = "a b" -> <<97, 32, 98>>
      [] s = "a___b" -> <<97, 95, 95, 95, 98>>
      [] s = "aDESC___b" -> <<97, 68, 69, 83, 67, 95, 95, 95, 98>>
      [] s = "C" -> <<67>>
      [] s = "D" -> <<68>>
      [] s = "ASC" -> <<65, 83, 67>>
      [] s = "DESC" -> <<68, 69, 83, 67>>
      [] s = "___" -> <<95, 95, 95>>
      [] s = "idx___" -> <<105, 100, 120, 95, 95, 95>>

\* sep.join(pieces)
RECURSIVE Join(_, _)
Join(pieces, sep) ==
    IF pieces = << >> THEN << >>
    ELSE IF Len(pieces) = 1 THEN pieces[1]
    ELSE pieces[1] \o sep \o Join(Tail(pieces), sep)

\* s.replace(c, new) for a single character c
RECURSIVE Replace(_, _, _)
Replace(s, c, new) ==
    IF s = << >> THEN << >>
    ELSE (IF Head(s) = c THEN new ELSE <<Head(s)>>) \o Replace(Tail(s), c, new)

\* s.split(sep), with cur the piece being read
RECURSIVE SplitFrom(_, _, _)
SplitFrom(s, sep, cur) ==
    IF s = << >> THEN <<cur>>
    ELSE IF StartsWith(s, sep)
    THEN <<cur>> \o SplitFrom(SubSeq(s, Len(sep) + 1, Len(s)), sep, << >>)
    ELSE SplitFrom(Tail(s), sep, Append(cur, Head(s)))
Split(s, sep) == SplitFrom(s, sep, << >>)

\* s.endswith(p), and s[:-k]
EndsWith(s, p) == Len(s) >= Len(p) /\ SubSeq(s, Len(s) - Len(p) + 1, Len(s)) = p
DropLast(s, k) == SubSeq(s, 1, IF Len(s) > k THEN Len(s) - k ELSE 0)

\* s < t for two texts
RECURSIVE StrLess(_, _)
StrLess(s, t) ==
    IF t = << >> THEN FALSE
    ELSE IF s = << >> THEN TRUE
    ELSE IF Head(s) # Head(t) THEN Head(s) < Head(t)
    ELSE StrLess(Tail(s), Tail(t))

\* '%r' % x of a value _coerce_ returns: None, an int, a float or a str.  A
\* str is put between ' (between " when it contains ' and no "), with a
\* backslash before every backslash and every quote of the kind chosen; the
\* other characters of the texts of the model are printable and stay.
RECURSIVE Dec(_)
Dec(n) == IF n < 10 THEN <<48 + n>> ELSE Dec(n \div 10) \o <<48 + (n % 10)>>
Abs(n) == IF n < 0 THEN 0 - n ELSE n
Sign(n) == IF n < 0 THEN <<45>> ELSE << >>
Has(s, c) == \E i \in 1..Len(s) : s[i] = c
QuoteOf(s) == IF Has(s, 39) /\ ~Has(s, 34) THEN 34 ELSE 39
RECURSIVE Escaped(_, _)
Escaped(s, q) ==
    IF s = << >> THEN << >>
    ELSE (IF Head(s) = 92 \/ Head(s) = q THEN <<92, Head(s)>> ELSE <<Head(s)>>)
         \o Escaped(Tail(s), q)
Repr(x) ==
    CASE x.t = "none" -> <<78, 111, 110, 101>>
      [] x.t = "int" -> Sign(x.v[1]) \o Dec(Abs(x.v[1]))
      [] x.t = "float" -> Sign(x.v[1]) \o Dec(Abs(x.v[1]) \div 2) \o <<46>>
                          \o (IF Abs(x.v[1]) % 2 = 0 THEN <<48>> ELSE <<53>>)
      [] OTHER -> <<QuoteOf(x.v)>> \o Escaped(x.v, QuoteOf(x.v)) \o <<QuoteOf(x.v)>>

\* The texts SQLite reads as one name when they are not quoted: letters,
\* digits and _, not starting with a digit
NameChars == (48..57) \cup (65..90) \cup {95} \cup (97..122)
BareIdentifier(s) ==
    /\ s # << >>
    /\ \A i \in 1..Len(s) : s[i] \in NameChars
    /\ s[1] \notin 48..57

-----------------------------------------------------------------------------
(* Documents *)

\* A document (a Python dict) is the sequence of its (key, value) items in
\* the dict's iteration order; no key occurs twice.
Range(f) == {f[i] : i \in DOMAIN f}
keys(d) == [i \in 1..Len(d) |-> d[i][1]]
values(d) == [i \in 1..Len(d) |-> d[i][2]]
KeySet(d) == Range(keys(d))
Get(d, k) == LET i == CHOOSE i \in 1..Len(d) : d[i][1] = k IN d[i][2]

\* dict(items) as a function from keys to values: what == of two dicts compares
AsDict(d) == [k \in KeySet(d) |-> Get(d, k)]

\* d.update(kwds): the items of kwds replace or extend those of d
DictUpdateNone(d, kwds) == d
DictUpdate(d, kwds) ==
    [i \in 1..Len(d) |-> IF d[i][1] \in KeySet(kwds)
                         THEN <<d[i][1], Get(kwds, d[i][1])>> ELSE d[i]]
    \o SelectSeq(kwds, LAMBDA it : it[1] \notin KeySet(d))

\* The names of a set in the order they have in the sequence order
InOrder(S, order) == SelectSeq(order, LAMBDA c : c \in S)

-----------------------------------------------------------------------------
(* The SQLite database behind LocalServer.execute / Server._run.execute.   *)
(* A table is its column list (empty: no such table), its rows in rowid    *)
(* order (one scalar per column) and the names of its indexes.  Every      *)
(* statement returns [err, db, rows]; err is "" or what it raises.         *)

NoTable == [cols |-> << >>, rows |-> << >>, idx |-> {}]
Exists(db, n) == db[n].cols # << >>
ColSet(db, n) == Range(db[n].cols)

Done(db, rows) == [err |-> "", db |-> db, rows |-> rows]
\* execute: except sqlite3.OperationalError, e: raise RuntimeError; over
\* XMLRPC the Fault is re-raised by Client.__call__ as RuntimeError too.
Raise(db) == [err |-> "RuntimeError", db |-> db, rows |-> << >>]

\* F of the value x: x is computed once and F names it
With(x, F(_)) == F(x)

\* PRAGMA table_info("n")
TableInfoRowid(db, n) == Done(db, <<"rowid">> \o db[n].cols)
TableInfo(db, n) == Done(db, db[n].cols)

\* CREATE TABLE IF NOT EXISTS "n" ("c1", "c2", ...)
CreateTableAnyColumns(db, n, cols) ==
    IF Exists(db, n) THEN Done(db, << >>)
    ELSE Done([db EXCEPT ![n] = [cols |-> cols, rows |-> << >>, idx |-> {}]], << >>)
CreateTable(db, n, cols) ==
    IF cols = << >> THEN Raise(db)                 \* syntax error
    ELSE IF Exists(db, n) THEN Done(db, << >>)
    ELSE Done([db EXCEPT ![n] = [cols |-> cols, rows |-> << >>, idx |-> {}]], << >>)

\* ALTER TABLE "n" ADD COLUMN "c"
AddColumn(db, n, c) ==
    IF ~Exists(db, n) \/ c \in ColSet(db, n) THEN Raise(db)
    ELSE Done([db EXCEPT ![n].cols = Append(@, c),
                         ![n].rows = [i \in 1..Len(@) |->
                            [k \in ColSet(db, n) \cup {c} |->
                               IF k = c THEN NoneV ELSE @[i][k]]]],
              << >>)

\* INSERT INTO "n" ("k1", ...) VALUES(?, ...) with one tuple of parameters
InsertRow(db, n, ks, vs) ==
    IF ~Exists(db, n) \/ ks = << >> \/ ~(Range(ks) \subseteq ColSet(db, n))
    THEN Raise(db)
    ELSE LET row == [k \in ColSet(db, n) |->
                        IF k \in Range(ks)
                        THEN vs[CHOOSE i \in 1..Len(ks) : ks[i] = k]
                        ELSE NoneV]
         IN Done([db EXCEPT ![n].rows = Append(@, row)], << >>)

\* cursor.executemany of the same statement, one tuple after the other
RECURSIVE InsertMany(_, _, _, _)
InsertMany(db, n, ks, vss) ==
    IF vss = << >>
    THEN (IF ~Exists(db, n) \/ ks = << >> \/ ~(Range(ks) \subseteq ColSet(db, n))
          THEN Raise(db) ELSE Done(db, << >>))
    ELSE With(InsertRow(db, n, ks, Head(vss)), LAMBDA r :
            IF r.err # "" THEN r ELSE InsertMany(r.db, n, ks, Tail(vss)))

\* DROP TABLE "n"
DropTable(db, n) ==
    IF ~Exists(db, n) THEN Raise(db) ELSE Done([db EXCEPT ![n] = NoTable], << >>)

\* A WHERE clause is the sequence of the (key, text) equality terms that
\* _where_clause joins with AND; the text is %r of the coerced value, which
\* SQLite reads as an expression.  The key is not quoted and must be a
\* column.
SqlEq(x, y) ==
    IF Numeric(x) /\ Numeric(y) THEN NumTwice(x) = NumTwice(y)
    ELSE x.t = y.t /\ x.v = y.v

\* The digits s as a number
RECURSIVE Nat10(_)
Nat10(s) == IF s = << >> THEN 0 ELSE 10 * Nat10(DropLast(s, 1)) + (s[Len(s)] - 48)
Digits(s) == s # << >> /\ \A i \in 1..Len(s) : s[i] \in 48..57

\* -12 and 1.5: an integer, or a number with one digit after the point
NumberLiteral(s) ==
    LET neg == s # << >> /\ s[1] = 45
        body == IF neg THEN Tail(s) ELSE s
        sgn == IF neg THEN 0 - 1 ELSE 1
    IN IF Digits(body) THEN IntV(sgn * Nat10(body))
       ELSE IF Len(body) >= 3 /\ body[Len(body) - 1] = 46
               /\ Digits(DropLast(body, 2)) /\ body[Len(body)] \in {48, 53}
       THEN FloatV(sgn * (2 * Nat10(DropLast(body, 2))
                          + (IF body[Len(body)] = 53 THEN 1 ELSE 0)))
       ELSE ErrorV

\* The rest s of a text after the quote q that opens it: it ends at the next
\* q that is not doubled, after which nothing may follow
RECURSIVE Unquote(_, _, _, _)
Unquote(s, q, t, out) ==
    IF s = << >> THEN ErrorV
    ELSE IF Head(s) # q THEN Unquote(Tail(s), q, t, Append(out, Head(s)))
    ELSE IF Len(s) >= 2 /\ s[2] = q THEN Unquote(Tail(Tail(s)), q, t, Append(out, q))
    ELSE IF Len(s) = 1 THEN V(t, out)
    ELSE ErrorV

\* The expression s: 'text', "name", a number or a bare name
Literal(s) ==
    IF s = << >> THEN ErrorV
    ELSE IF s[1] = 39 THEN Unquote(Tail(s), 39, "str", << >>)
    ELSE IF s[1] = 34 THEN Unquote(Tail(s), 34, "quoted", << >>)
    ELSE IF s[1] = 45 \/ s[1] \in 48..57 THEN NumberLiteral(s)
    ELSE IF BareIdentifier(s) THEN V("bare", s)
    ELSE ErrorV

\* The value of the expression e in the row val: a name is the column of
\* that name; "name" is taken as the text 'name' when there is no such
\* column, a bare name of no column is an error
IsColumn(val, e) == \E c \in DOMAIN val : Chars(c) = e.v
Operand(val, e) ==
    IF e.t \in {"bare", "quoted"}
    THEN IF IsColumn(val, e) THEN val[CHOOSE c \in DOMAIN val : Chars(c) = e.v]
         ELSE IF e.t = "quoted" THEN StrV(e.v)
         ELSE ErrorV
    ELSE e

WhereFails(db, n, where) ==
    \E i \in 1..Len(where) : \E e \in {Literal(where[i][2])} :
        \/ where[i][1] \notin ColSet(db, n)
        \/ ~BareIdentifier(Chars(where[i][1]))
        \/ e.t = "error"
        \/ /\ e.t = "bare"
           /\ \A c \in ColSet(db, n) : Chars(c) # e.v
Matches(val, where) ==
    \A i \in 1..Len(where) :
        \E x \in {val[where[i][1]]}, y \in {Operand(val, Literal(where[i][2]))} :
            x.t # "none" /\ y.t \notin {"none", "error"} /\ SqlEq(x, y)
Matching(db, n, where) == SelectSeq(db[n].rows, LAMBDA r : Matches(r, where))

\* LIMIT l OFFSET o: a negative limit is no limit, a negative offset is 0
Min(a, b) == IF a < b THEN a ELSE b
Max(a, b) == IF a > b THEN a ELSE b
Page(rows, limit, offset) ==
    LET from == Max(offset, 0) + 1
        to == IF limit < 0 THEN Len(rows) ELSE Min(Len(rows), from + limit - 1)
    IN SubSeq(rows, from, to)

\* SELECT * FROM "n" WHERE ... LIMIT l OFFSET o: each row in column order;
\* SELECT f1,f2 FROM ...: the named columns, of which there is at least one
Select(db, n, fields, where, limit, offset) ==
    IF ~Exists(db, n) \/ WhereFails(db, n, where) THEN Raise(db)
    ELSE IF fields # << >> /\ (fields[1] = << >> \/ ~(Range(fields[1]) \subseteq ColSet(db, n)))
    THEN Raise(db)
    ELSE With(Matching(db, n, where), LAMBDA found :
         With(IF fields = << >> THEN db[n].cols ELSE fields[1], LAMBDA cols :
            Done(db, Page([i \in 1..Len(found) |->
                              [j \in 1..Len(cols) |-> found[i][cols[j]]]],
                          limit, offset))))

\* SELECT COUNT(*) FROM "n" WHERE ... LIMIT l OFFSET o: one row
SelectCount(db, n, where, limit, offset) ==
    IF ~Exists(db, n) \/ WhereFails(db, n, where) THEN Raise(db)
    ELSE Done(db, Page(<< <<IntV(Len(Matching(db, n, where)))>> >>, limit, offset))

\* DELETE FROM "n" WHERE ...
DeleteEveryRow(db, n, where) ==
    IF ~Exists(db, n) \/ WhereFails(db, n, where) THEN Raise(db)
    ELSE Done([db EXCEPT ![n].rows = << >>], << >>)
DeleteRows(db, n, where) ==
    IF ~Exists(db, n) \/ WhereFails(db, n, where) THEN Raise(db)
    ELSE Done([db EXCEPT ![n].rows = SelectSeq(@, LAMBDA r : ~Matches(r, where))],
              << >>)

\* UPDATE "n" SET "k1"=?, ... WHERE ...
UpdateEveryRow(db, n, ks, vs, where) ==
    IF ~Exists(db, n) \/ ks = << >> \/ ~(Range(ks) \subseteq ColSet(db, n))
       \/ WhereFails(db, n, where)
    THEN Raise(db)
    ELSE Done([db EXCEPT ![n].rows = [i \in 1..Len(@) |->
                 [k \in ColSet(db, n) |->
                     IF k \in Range(ks)
                     THEN vs[CHOOSE j \in 1..Len(ks) : ks[j] = k]
                     ELSE @[i][k]]]],
              << >>)
UpdateRows(db, n, ks, vs, where) ==
    IF ~Exists(db, n) \/ ks = << >> \/ ~(Range(ks) \subseteq ColSet(db, n))
       \/ WhereFails(db, n, where)
    THEN Raise(db)
    ELSE Done([db EXCEPT ![n].rows = [i \in 1..Len(@) |->
                 IF Matches(@[i], where)
                 THEN [k \in ColSet(db, n) |->
                         IF k \in Range(ks)
                         THEN vs[CHOOSE j \in 1..Len(ks) : ks[j] = k]
                         ELSE @[i][k]]
                 ELSE @[i]]],
              << >>)

\* ALTER TABLE n RENAME TO m: neither name is quoted
RenameTable(db, n, m) ==
    IF ~BareIdentifier(Chars(n)) \/ ~BareIdentifier(Chars(m)) THEN Raise(db)
    ELSE IF ~Exists(db, n) \/ Exists(db, m) THEN Raise(db)
    ELSE Done([db EXCEPT ![m] = db[n], ![n] = NoTable], << >>)

\* "f" in the result columns of a SELECT: the column f of the row, and the
\* text 'f' when the table has no column f
QuotedColumn(val, f) == IF f \in DOMAIN val THEN val[f] ELSE StrV(Chars(f))

\* INSERT INTO "dest" ("f1", ...) SELECT "f1", ... FROM "src" WHERE ...
RECURSIVE AppendRows(_, _, _, _)
AppendRows(db, n, ks, vals) ==
    IF vals = << >> THEN Done(db, << >>)
    ELSE AppendRows(InsertRow(db, n, ks,
                              [i \in 1..Len(ks) |-> QuotedColumn(Head(vals), ks[i])]).db,
                    n, ks, Tail(vals))
InsertSelect(db, dest, fields, src, where) ==
    IF ~Exists(db, dest) \/ ~Exists(db, src) \/ fields = << >>
       \/ ~(Range(fields) \subseteq ColSet(db, dest))
       \/ WhereFails(db, src, where)
    THEN Raise(db)
    ELSE LET found == Matching(db, src, where)
         IN AppendRows(db, dest, fields, found)

\* CREATE INDEX IF NOT EXISTS name ON n(c1 ASC, ...): no name is quoted;
\* index names are global, and nothing is done when the name is taken
CreateIndexNew(db, name, n, cols) ==
    IF ~BareIdentifier(name) \/ ~BareIdentifier(Chars(n))
       \/ \E i \in 1..Len(cols) : ~BareIdentifier(Chars(cols[i]))
    THEN Raise(db)
    ELSE IF ~Exists(db, n) THEN Raise(db)
    ELSE IF \E t \in DOMAIN db : name \in db[t].idx THEN Raise(db)
    ELSE IF ~(Range(cols) \subseteq ColSet(db, n)) THEN Raise(db)
    ELSE Done([db EXCEPT ![n].idx = @ \cup {name}], << >>)
CreateIndex(db, name, n, cols) ==
    IF ~BareIdentifier(name) \/ ~BareIdentifier(Chars(n))
       \/ \E i \in 1..Len(cols) : ~BareIdentifier(Chars(cols[i]))
    THEN Raise(db)
    ELSE IF ~Exists(db, n) THEN Raise(db)
    ELSE IF \E t \in DOMAIN db : name \in db[t].idx THEN Done(db, << >>)
    ELSE IF ~(Range(cols) \subseteq ColSet(db, n)) THEN Raise(db)
    ELSE Done([db EXCEPT ![n].idx = @ \cup {name}], << >>)

-----------------------------------------------------------------------------
(* Client.__call__ and the methods of Collection.  A method takes the      *)
(* database db and returns [err, db, stmts, ret]: the exception it raises  *)
(* ("" for none), the database it leaves, the statements it sent and its   *)
(* return value.                                                           *)

Transports == {"local", "xmlrpc"}

\* Python's None for an optional argument: << >>, and <<k>> for the value k
None == << >>
Some(k) == <<k>>

Ok(db, stmts, ret) == [err |-> "", db |-> db, stmts |-> stmts, ret |-> ret]
Fail(err, db, stmts) == [err |-> err, db |-> db, stmts |-> stmts, ret |-> << >>]

\* What server.execute raises in the client for a statement SQLite rejects:
\* LocalServer.execute raises RuntimeError itself, over XMLRPC the server's
\* RuntimeError arrives as an xmlrpclib.Fault.
execute(e, tr) ==
    IF e.err = "" THEN e
    ELSE [e EXCEPT !.err = IF tr = "xmlrpc" THEN "xmlrpclib.Fault" ELSE "RuntimeError"]

\* Client.__call__: except xmlrpclib.Fault, e: raise RuntimeError
__call__(e, tr) ==
    With(execute(e, tr), LAMBDA r :
        IF r.err = "xmlrpclib.Fault" THEN [r EXCEPT !.err = "RuntimeError"] ELSE r)

\* self.database(cmd) as the next statement after those in stmts; e is the
\* statement's effect on the database
database(stmts, kind, e, tr) ==
    With(__call__(e, tr), LAMBDA r :
        [err |-> r.err, db |-> r.db, stmts |-> Append(stmts, kind), ret |-> r.rows])

\* The column names that contain a double quote
QuotedNames == {"q\""}

_validate_first_column_name(columns) ==
    IF columns # << >> /\ columns[1] \in QuotedNames THEN "ValueError" ELSE ""
_validate_column_names(columns) ==
    IF \E i \in 1..Len(columns) : columns[i] \in QuotedNames THEN "ValueError" ELSE ""

_columns(db, stmts, n, tr) == database(stmts, "PRAGMA", TableInfo(db, n), tr)

_create(db, stmts, n, columns, tr) ==
    IF _validate_column_names(columns) # "" THEN Fail("ValueError", db, stmts)
    ELSE database(stmts, "CREATE TABLE", CreateTable(db, n, columns), tr)

\* The exceptions the try of the loop in _add_columns catches
AddColumnsCatches == {"xmlrpclib.Fault"}

RECURSIVE AddEachColumn(_, _, _, _, _)
AddEachColumn(db, stmts, n, new_columns, tr) ==
    IF new_columns = << >> THEN Ok(db, stmts, << >>)
    ELSE With(database(stmts, "ALTER TABLE", AddColumn(db, n, Head(new_columns)), tr),
              LAMBDA r :
            IF r.err # "" /\ r.err \notin AddColumnsCatches THEN r
            ELSE AddEachColumn(r.db, r.stmts, n, Tail(new_columns), tr))

_add_columns(db, stmts, n, new_columns, tr) ==
    IF _validate_column_names(new_columns) # "" THEN Fail("ValueError", db, stmts)
    ELSE AddEachColumn(db, stmts, n, new_columns, tr)

\* _constant_key_grouping: x maps tuple(a.keys()) to the list of the
\* documents with these keys; here x is the list of its (key, value) items in
\* the order the keys were first seen.  x.values() lists them in the order
\* of the dict x, which the caller cannot choose.
RECURSIVE GroupIntoLast(_, _)
GroupIntoLast(x, d) ==
    IF d = << >> THEN x
    ELSE LET a == Head(d)
             k == keys(a)
         IN IF \E j \in 1..Len(x) : x[j][1] = k
            THEN LET j == CHOOSE j \in 1..Len(x) : x[j][1] = k
                 IN GroupIntoLast([x EXCEPT ![j][2] = <<a>>], Tail(d))
            ELSE GroupIntoLast(Append(x, <<k, <<a>>>>), Tail(d))

RECURSIVE GroupIntoBySet(_, _)
GroupIntoBySet(x, d) ==
    IF d = << >> THEN x
    ELSE LET a == Head(d)
             k == keys(a)
         IN IF \E j \in 1..Len(x) : Range(x[j][1]) = Range(k)
            THEN LET j == CHOOSE j \in 1..Len(x) : Range(x[j][1]) = Range(k)
                 IN GroupIntoBySet([x EXCEPT ![j][2] = Append(@, a)], Tail(d))
            ELSE GroupIntoBySet(Append(x, <<k, <<a>>>>), Tail(d))

RECURSIVE GroupInto(_, _)
GroupInto(x, d) ==
    IF d = << >> THEN x
    ELSE LET a == Head(d)
             k == keys(a)
         IN IF \E j \in 1..Len(x) : x[j][1] = k
            THEN LET j == CHOOSE j \in 1..Len(x) : x[j][1] = k
                 IN GroupInto([x EXCEPT ![j][2] = Append(@, a)], Tail(d))
            ELSE GroupInto(Append(x, <<k, <<a>>>>), Tail(d))
_constant_key_grouping(d) == values(GroupInto(<< >>, d))

\* A sequence in the order given by a permutation of its indices
Permuted(seq, perm) == [i \in 1..Len(seq) |-> seq[perm[i]]]
Perms(n) == {p \in [1..n -> 1..n] : \A i, j \in 1..n : p[i] = p[j] => i = j}

\* The loop of insert over the groups: one executemany per group
RECURSIVE InsertGroups(_, _, _, _, _)
InsertGroups(db, stmts, n, groups, tr) ==
    IF groups = << >> THEN Ok(db, stmts, << >>)
    ELSE LET v == Head(groups)
             params == [i \in 1..Len(v) |->
                          [j \in 1..Len(v[i]) |-> _coerce_(values(v[i])[j])]]
         IN With(database(stmts, "INSERT", InsertMany(db, n, keys(v[1]), params), tr),
                 LAMBDA r :
                IF r.err # "" THEN r ELSE InsertGroups(r.db, r.stmts, n, Tail(groups), tr))

\* keys.difference(self._columns()): the keys ks that are not yet columns, in
\* the order a loop over this set takes them
AllKeys(ks, current_cols, order) == InOrder(ks, order)
MissingKeys(ks, current_cols, order) == InOrder(ks \ Range(current_cols), order)

\* The INSERT statement of insert for the single document d
InsertOne(db, stmts, n, d, tr) ==
    database(stmts, "INSERT",
             InsertRow(db, n, keys(d), [j \in 1..Len(d) |-> _coerce_(values(d)[j])]), tr)

\* Collection.insert(d, **kwds) with coerce=True and on_conflict=None.
\* order: the iteration order of the set new_columns; gperm: the order of
\* x.values() in _constant_key_grouping.
insert(db, n, d, isList, kwds, order, gperm, tr) ==
    IF isList /\ kwds # << >> THEN Fail("ValueError", db, << >>)
    ELSE
    With(IF isList THEN d ELSE DictUpdate(d, kwds), LAMBDA doc :
    With(IF isList THEN UNION {KeySet(d[i]) : i \in 1..Len(d)} ELSE KeySet(doc), LAMBDA ks :
    With(_columns(db, << >>, n, tr), LAMBDA current_cols :
    With(MissingKeys(ks, current_cols.ret, order), LAMBDA new_columns :
    With(IF Len(current_cols.ret) = 0
         THEN _create(current_cols.db, current_cols.stmts, n, new_columns, tr)
         ELSE _add_columns(current_cols.db, current_cols.stmts, n, new_columns, tr),
         LAMBDA r :
        IF r.err # "" THEN r
        ELSE IF isList
        THEN InsertGroups(r.db, r.stmts, n, Permuted(_constant_key_grouping(d), gperm), tr)
        ELSE InsertOne(r.db, r.stmts, n, doc, tr))))))

\* _where_clause(query, kwds) with query = '': one ' key=%r ' per keyword
_where_clause(kwds) ==
    [i \in 1..Len(kwds) |-> <<kwds[i][1], Repr(_coerce_(kwds[i][2]))>>]

\* The UPDATE statement of update
UpdateSet(db, stmts, n, d, kwds, tr) ==
    database(stmts, "UPDATE",
             UpdateRows(db, n, keys(d), [j \in 1..Len(d) |-> _coerce_(values(d)[j])],
                        _where_clause(kwds)), tr)

\* Collection.update(d, **kwds)
update(db, n, d, kwds, order, tr) ==
    With(_columns(db, << >>, n, tr), LAMBDA cols :
    With(MissingKeys(KeySet(d), cols.ret, order), LAMBDA new_cols :
    With(IF new_cols # << >>
         THEN _add_columns(cols.db, cols.stmts, n, new_cols, tr)
         ELSE Ok(cols.db, cols.stmts, << >>),
         LAMBDA r :
        IF r.err # "" THEN r ELSE UpdateSet(r.db, r.stmts, n, d, kwds, tr))))

\* Collection.delete(**kwds)
deleteAlwaysDrops(db, n, kwds, tr) ==
    With(_columns(db, << >>, n, tr), LAMBDA cols :
        IF Len(cols.ret) = 0 THEN Ok(cols.db, cols.stmts, << >>)
        ELSE database(cols.stmts, "DROP TABLE", DropTable(cols.db, n), tr))
deleteWithoutCheck(db, n, kwds, tr) ==
    IF Len(kwds) = 0
    THEN database(<< >>, "DROP TABLE", DropTable(db, n), tr)
    ELSE database(<< >>, "DELETE", DeleteRows(db, n, _where_clause(kwds)), tr)
delete(db, n, kwds, tr) ==
    IF Len(kwds) = 0
    THEN With(_columns(db, << >>, n, tr), LAMBDA cols :
            IF Len(cols.ret) = 0 THEN Ok(cols.db, cols.stmts, << >>)
            ELSE database(cols.stmts, "DROP TABLE", DropTable(cols.db, n), tr))
    ELSE database(<< >>, "DELETE", DeleteRows(db, n, _where_clause(kwds)), tr)

\* Collection.__len__: int(self.database(cmd)[0][0]), and 0 when that raises
\* RuntimeError and the collection has no columns
__len__Raising(db, n, tr) ==
    With(database(<< >>, "SELECT", SelectCount(db, n, << >>, 0 - 1, 0), tr), LAMBDA r :
        IF r.err # "" THEN r ELSE [r EXCEPT !.ret = r.ret[1][1]])
__len__(db, n, tr) ==
    With(database(<< >>, "SELECT", SelectCount(db, n, << >>, 0 - 1, 0), tr), LAMBDA r :
        IF r.err = "RuntimeError"
        THEN With(_columns(r.db, r.stmts, n, tr), LAMBDA cols :
                IF cols.err # "" THEN cols
                ELSE IF Len(cols.ret) = 0 THEN Ok(cols.db, cols.stmts, IntV(0))
                ELSE Fail("RuntimeError", cols.db, cols.stmts))
        ELSE IF r.err # "" THEN r
        ELSE [r EXCEPT !.ret = r.ret[1][1]])

\* Collection.rename(new_name); ret is self.name afterwards
renameAnyway(db, n, new_name, tr) ==
    With(database(<< >>, "ALTER TABLE RENAME", RenameTable(db, n, new_name), tr),
         LAMBDA r : [r EXCEPT !.ret = new_name])
rename(db, n, new_name, tr) ==
    With(database(<< >>, "ALTER TABLE RENAME", RenameTable(db, n, new_name), tr),
         LAMBDA r :
        IF r.err # "" THEN [r EXCEPT !.ret = n] ELSE [r EXCEPT !.ret = new_name])

\* Collection.copy(collection, fields=, **kwds); order is the iteration
\* order of the set cols
copy(db, n, collection, fields, kwds, order, tr) ==
    With(IF fields = None THEN _columns(db, << >>, n, tr) ELSE Ok(db, << >>, fields[1]),
         LAMBDA columns :
    With(_columns(columns.db, columns.stmts, collection, tr), LAMBDA other :
    With(InOrder(Range(columns.ret) \ Range(other.ret), order), LAMBDA cols :
    With(IF Len(other.ret) = 0
         THEN _create(other.db, other.stmts, collection, cols, tr)
         ELSE IF cols # << >>
         THEN _add_columns(other.db, other.stmts, collection, cols, tr)
         ELSE Ok(other.db, other.stmts, << >>),
         LAMBDA r :
        IF r.err # "" THEN r
        ELSE database(r.stmts, "INSERT SELECT",
                      InsertSelect(r.db, collection, columns.ret, n, _where_clause(kwds)),
                      tr)))))

\* sorted() of column names
SortedNames == <<"a", "a b", "aDESC___b", "a___b", "ab", "b", "c", "q\"", "x", "y", "z">>
Sorted(S) == InOrder(S, SortedNames)

\* _index_pattern(kwds): the (column, direction) pairs sorted by column, as
\* pairs and as the text 'c1 ASC,c2 DESC', and the index name made of the
\* collection name and this text
_index_pattern(n, kwds) ==
    With(Sorted(KeySet(kwds)), LAMBDA names :
    With([i \in 1..Len(names) |->
            <<names[i], IF Get(kwds, names[i]) < 0 THEN "DESC" ELSE "ASC">>], LAMBDA cols :
    With(Join([i \in 1..Len(cols) |->
                 Chars(cols[i][1]) \o <<32>> \o Chars(cols[i][2])], <<44>>), LAMBDA text :
        [cols |-> cols, text |-> text,
         index_name |-> Chars("idx___") \o Chars(n) \o Chars("___")
                        \o Replace(Replace(text, 44, Chars("___")), 32, << >>)])))

\* The loop of indexes() over the name x[1] of one index
RECURSIVE DecodeParts(_, _)
DecodeParts(parts, d) ==
    IF parts = << >> THEN d
    ELSE LET a == Head(parts)
         IN DecodeParts(Tail(parts),
                IF EndsWith(a, Chars("ASC"))
                THEN DictUpdate(d, << <<DropLast(a, 3), 1>> >>)
                ELSE DictUpdate(d, << <<DropLast(a, 4), 0 - 1>> >>))
DecodeIndexName(name) ==
    With(Split(name, Chars("___")), LAMBDA parts :
        DecodeParts(SubSeq(parts, 3, Len(parts)), << >>))

\* ORDER BY name
RECURSIVE SortTexts(_)
SortTexts(S) ==
    IF S = {} THEN << >>
    ELSE LET m == CHOOSE m \in S : \A t \in S \ {m} : StrLess(m, t)
         IN <<m>> \o SortTexts(S \ {m})

\* Collection.indexes()
indexes(db, n, tr) ==
    With(database(<< >>, "SELECT", Done(db, SortTexts(db[n].idx)), tr), LAMBDA r :
        [r EXCEPT !.ret = [i \in 1..Len(r.ret) |-> DecodeIndexName(r.ret[i])]])

\* Collection.ensure_index(**kwds) with unique=None
ensure_index(db, n, kwds, tr) ==
    IF Len(kwds) = 0 THEN Fail("ValueError", db, << >>)
    ELSE
    With(_index_pattern(n, kwds), LAMBDA pat :
    With(_columns(db, << >>, n, tr), LAMBDA current_cols :
    With(SelectSeq(Sorted(KeySet(kwds)), LAMBDA c : c \notin Range(current_cols.ret)),
         LAMBDA new_cols :
    With(IF new_cols # << >>
         THEN IF current_cols.ret = << >>
              THEN _create(current_cols.db, current_cols.stmts, n, new_cols, tr)
              ELSE _add_columns(current_cols.db, current_cols.stmts, n, new_cols, tr)
         ELSE Ok(current_cols.db, current_cols.stmts, << >>),
         LAMBDA r :
        IF r.err # "" THEN r
        ELSE database(r.stmts, "CREATE INDEX",
                      CreateIndex(r.db, pat.index_name, n, keys(pat.cols)), tr)))))

\* _find_cmd(fields=, limit=, offset=, batch_size=, _count=, **kwds): the
\* SELECT statement, as what it counts or selects, its WHERE, LIMIT and
\* OFFSET; COUNT(*) is selected only when no fields are given
_find_cmdBatchSize(n, fields, limit, offset, batch_size, count, kwds) ==
    [table |-> n, count |-> fields = None /\ count, fields |-> fields,
     where |-> _where_clause(kwds), limit |-> batch_size, offset |-> offset]
_find_cmd(n, fields, limit, offset, batch_size, count, kwds) ==
    [table |-> n, count |-> fields = None /\ count, fields |-> fields,
     where |-> _where_clause(kwds),
     limit |-> IF limit # None THEN limit[1] ELSE batch_size,
     offset |-> offset]

RunSelect(db, cmd) ==
    IF cmd.count THEN SelectCount(db, cmd.table, cmd.where, cmd.limit, cmd.offset)
    ELSE Select(db, cmd.table, cmd.fields, cmd.where, cmd.limit, cmd.offset)

\* Collection.count(batch_size=, **kwds): self.database(cmd)[0]
count(db, n, batch_size, kwds, tr) ==
    With(database(<< >>, "SELECT",
                  RunSelect(db, _find_cmd(n, None, None, 0, batch_size, TRUE, kwds)), tr),
         LAMBDA r :
        IF r.err # "" THEN r
        ELSE IF r.ret = << >> THEN Fail("IndexError", r.db, r.stmts)
        ELSE [r EXCEPT !.ret = RowV(r.ret[1])])

\* dict([a for a in zip(columns, [convert(y) for y in x]) if a[1] is not None])
DecodeRowWithNone(columns, x) ==
    [j \in 1..Min(Len(columns), Len(x)) |-> <<columns[j], _coerce_back_(x[j])>>]
DecodeRow(columns, x) ==
    LET n == Min(Len(columns), Len(x))
        items == [j \in 1..n |-> <<columns[j], _coerce_back_(x[j])>>]
    IN SelectSeq(items, LAMBDA a : a[2].t # "none")

\* convert raises on this row
RowRaises(x) == \E j \in 1..Len(x) : _coerce_back_(x[j]).t = "error"

\* The documents the for loop of find yields from the page v, up to the
\* first row convert raises on
RECURSIVE Yielded(_, _)
Yielded(columns, v) ==
    IF v = << >> \/ RowRaises(Head(v)) THEN << >>
    ELSE <<DecodeRow(columns, Head(v))>> \o Yielded(columns, Tail(v))

\* Collection.find(fields=, batch_size=, limit=, offset=, **kwds): the
\* generator before its first next()
find(n, fields, batch_size, limit, offset, kwds) ==
    [state |-> "open", n |-> n, fields |-> fields, limit |-> limit,
     batch_size |-> batch_size, offset |-> offset,
     cmd |-> _find_cmd(n, fields, limit, offset, batch_size, FALSE, kwds),
     out |-> << >>, pages |-> 0]

\* offset += batch_size
NextOffsetByOne(offset, batch_size) == offset + 1
NextOffset(offset, batch_size) == offset + batch_size

\* One turn of the while loop of find: the page is read and its documents
\* are yielded to a consumer that takes them all
FindPage(db, c, tr) ==
    With(_columns(db, << >>, c.n, tr), LAMBDA cols :
        IF Len(cols.ret) = 0 THEN [c EXCEPT !.state = "done"]
        ELSE
        With(database(cols.stmts, "SELECT", RunSelect(db, c.cmd), tr), LAMBDA v :
            IF v.err # "" THEN [c EXCEPT !.state = v.err, !.pages = @ + 1]
            ELSE
            With(IF c.fields = None THEN cols.ret ELSE c.fields[1], LAMBDA columns :
            With(Yielded(columns, v.ret), LAMBDA docs :
            With(NextOffset(c.offset, c.batch_size), LAMBDA next :
                IF Len(docs) < Len(v.ret)
                THEN [c EXCEPT !.state = "PickleError", !.out = @ \o docs,
                               !.pages = @ + 1]
                ELSE IF c.limit # None \/ Len(v.ret) = 0
                THEN [c EXCEPT !.state = "done", !.out = @ \o docs,
                               !.pages = @ + 1]
                ELSE [c EXCEPT !.out = @ \o docs, !.pages = @ + 1,
                               !.offset = next, !.cmd.offset = next])))))

\* list(find(...)): the generator read to exhaustion with the collection
\* left alone meanwhile
RECURSIVE Exhaust(_, _, _)
Exhaust(db, c, tr) ==
    IF c.state # "open" THEN c ELSE Exhaust(db, FindPage(db, c, tr), tr)

\* list(self.find(...)) as a method result
FindList(db, c, tr) ==
    With(Exhaust(db, c, tr), LAMBDA e :
        IF e.state = "done" THEN Ok(db, << >>, e.out) ELSE Fail(e.state, db, << >>))

\* Collection.find_one(fields=, batch_size=, offset=, **kwds)
find_oneOrNone(db, n, fields, batch_size, offset, kwds, tr) ==
    With(FindList(db, find(n, fields, batch_size, Some(1), offset, kwds), tr), LAMBDA v :
        IF v.err # "" THEN v
        ELSE IF Len(v.ret) = 0 THEN Ok(db, << >>, << >>)
        ELSE Ok(db, << >>, v.ret[1]))
find_one(db, n, fields, batch_size, offset, kwds, tr) ==
    With(FindList(db, find(n, fields, batch_size, Some(1), offset, kwds), tr), LAMBDA v :
        IF v.err # "" THEN v
        ELSE IF Len(v.ret) = 0 THEN Fail("ValueError", db, << >>)
        ELSE Ok(db, << >>, v.ret[1]))

-----------------------------------------------------------------------------
(* The Value Codec on its own: _coerce_ and then _coerce_back_ of one value *)

\* Sequences over S of length at most n
SeqsUpTo(S, n) == UNION {[1..k -> S] : k \in 0..n}

Texts ==
    LET short == SeqsUpTo({95, 97}, MaxTextLen)
    IN  short
        \cup {Sentinel \o s : s \in short}
        \cup {Sentinel \o Dumps(NoneV), Sentinel \o Dumps(ListV(<<1>>))}

CodecInputs ==
    {NoneV}
    \cup {BoolV(b) : b \in {0, 1}}
    \cup {IntV(n) : n \in (0 - MaxInt)..MaxInt}
    \cup {FloatV(h) : h \in 0..(2 * MaxInt)}
    \cup {StrV(s) : s \in Texts}
    \cup {UnicodeV(s) : s \in Texts}
    \cup {ListV(l) : l \in SeqsUpTo(0..MaxInt, MaxListLen)}

Idle == [name |-> "none"]
NoCursor == [state |-> "none"]
NoClients == << >>
NoServer == [_dbs |-> << >>]
NoTables == << >>

InitCodec ==
    /\ tables = NoTables
    /\ collname = "C"
    /\ cursor = NoCursor
    /\ clients = NoClients
    /\ server = NoServer
    /\ \E x \in CodecInputs : op = [name |-> "_coerce_", pc |-> "call", x |-> x]

\* z = c._coerce_(x)
DoCoerce ==
    /\ op.name = "_coerce_" /\ op.pc = "call"
    /\ op' = [name |-> "_coerce_", pc |-> "coerced", x |-> op.x, enc |-> _coerce_(op.x)]
    /\ UNCHANGED <<tables, collname, cursor, clients, server>>

\* c._coerce_back_(z)
DoCoerceBack ==
    /\ op.name = "_coerce_" /\ op.pc = "coerced"
    /\ op' = [name |-> "_coerce_", pc |-> "done", x |-> op.x, enc |-> op.enc,
              dec |-> _coerce_back_(op.enc)]
    /\ UNCHANGED <<tables, collname, cursor, clients, server>>

NextCodec == DoCoerce \/ DoCoerceBack

SpecCodec == InitCodec /\ [][NextCodec]_vars

\* C5: for every value v that _coerce_ accepts, text that begins with
\* '__pickle' included, _coerce_back_(_coerce_(v)) equals v.
C5_RoundTrip ==
    (op.name = "_coerce_" /\ op.pc = "done") => PyEq(op.dec, op.x)


-----------------------------------------------------------------------------
(* One application using one database through Collection handles, one     *)
(* call after the other.                                                   *)

Names == {"C", "D"}

\* The documents the application inserts
Docs ==
    { << <<"a", IntV(1)>> >>,
      << <<"a", IntV(1)>>, <<"b", ListV(<<1>>)>> >>,
      << <<"b", NoneV>> >>,
      << >>,
      << <<"q\"", IntV(1)>> >> }
AllOrders(d) == {Permuted(d, p) : p \in Perms(Len(d))}
BatchDocs ==
    AllOrders(<< <<"a", IntV(1)>>, <<"b", ListV(<<1>>)>> >>)
    \cup { << <<"a", IntV(1)>> >> }
InsertKwds == { << >>, << <<"a", BoolV(1)>> >> }
Filters == { << >>, << <<"a", IntV(1)>> >> }
UpdateDocs == { << <<"b", ListV(<<1>>)>> >> }
IndexKwds == { << >>, << <<"b", 0 - 1>>, <<"a", 1>> >> }

\* The iteration orders a set of names can have
OrdersOf(S) == {o \in [1..Cardinality(S) -> S] : Range(o) = S}

RECURSIVE SumRows(_, _)
SumRows(db, S) ==
    IF S = {} THEN 0
    ELSE LET n == CHOOSE n \in S : TRUE IN Len(db[n].rows) + SumRows(db, S \ {n})
TotalRows(db) == SumRows(db, DOMAIN db)

Init ==
    /\ tables = [n \in Names |-> NoTable]
    /\ collname = "C"
    /\ op = Idle
    /\ cursor = NoCursor
    /\ clients = NoClients
    /\ server = NoServer

\* The application reaches the server through client(), over XMLRPC
Transport == "xmlrpc"

\* The statements that change the schema, and whether one of them was sent
DDL == {"CREATE TABLE", "ALTER TABLE", "ALTER TABLE RENAME", "DROP TABLE", "CREATE INDEX"}
SchemaChanging(stmts) == \E i \in 1..Len(stmts) : stmts[i] \in DDL

\* The call name(args) returned r or raised r.err
Called(name, args, r) ==
    /\ TotalRows(r.db) <= MaxRows
    /\ tables' = r.db
    /\ op' = [name |-> name, args |-> args, err |-> r.err, ret |-> r.ret,
              ddl |-> SchemaChanging(r.stmts)]
    /\ UNCHANGED <<collname, cursor, clients, server>>

Insert ==
    \E d \in Docs, kwds \in InsertKwds :
      \E order \in OrdersOf(KeySet(d) \cup KeySet(kwds)) :
        Called("insert", KeySet(d) \cup KeySet(kwds),
               insert(tables, collname, d, FALSE, kwds, order, << >>, Transport))

InsertList ==
    \E d \in SeqsUpTo(BatchDocs, MaxBatch) :
      \/ \E kwds \in InsertKwds \ {<< >>} :
            Called("insert", {},
                   insert(tables, collname, d, TRUE, kwds, << >>, << >>, Transport))
      \/ \E order \in OrdersOf(UNION {KeySet(d[i]) : i \in 1..Len(d)}),
            gperm \in Perms(Len(_constant_key_grouping(d))) :
            Called("insert", UNION {KeySet(d[i]) : i \in 1..Len(d)},
                   insert(tables, collname, d, TRUE, << >>, order, gperm, Transport))

Update ==
    \E d \in UpdateDocs, kwds \in Filters :
      \E order \in OrdersOf(KeySet(d)) :
        Called("update", KeySet(d), update(tables, collname, d, kwds, order, Transport))

Delete ==
    \E kwds \in Filters :
        Called("delete", KeySet(kwds), delete(tables, collname, kwds, Transport))

Copy ==
    \E collection \in Names, kwds \in Filters :
      \E order \in OrdersOf(ColSet(tables, collname)) :
        Called("copy", {collection},
               copy(tables, collname, collection, None, kwds, order, Transport))

EnsureIndex ==
    \E kwds \in IndexKwds :
        Called("ensure_index", KeySet(kwds),
               ensure_index(tables, collname, kwds, Transport))

Count ==
    \E batch_size \in 1..MaxBatchSize :
        Called("count", {}, count(tables, collname, batch_size, << >>, Transport))

Find ==
    \E batch_size \in 1..MaxBatchSize, kwds \in Filters :
        Called("find", kwds,
               FindList(tables, find(collname, None, batch_size, None, 0, kwds), Transport))

FindOne ==
    \E batch_size \in 1..MaxBatchSize :
        Called("find_one", {}, find_one(tables, collname, None, batch_size, 0, << >>, Transport))

Next ==
    \/ Insert
    \/ InsertList
    \/ Update
    \/ Delete
    \/ Copy
    \/ EnsureIndex
    \/ Count
    \/ Find
    \/ FindOne

Spec == Init /\ [][Next]_vars

\* C1: after a successful insert of a document or of a list of documents the
\* columns of the collection are those it had before and the field names of
\* the inserted documents, no others: all of them when it did not exist.
C1_InsertColumns ==
    [][(op'.name = "insert" /\ op'.err = "") =>
          ColSet(tables', collname) = ColSet(tables, collname) \cup op'.args]_vars

\* An insert of a document with the one key b into a collection that had
\* the column a and one row has succeeded.
C1_Witness ==
    /\ op.name = "insert" /\ op.err = "" /\ op.ddl
    /\ op.args = {"b"}
    /\ tables[collname].cols = <<"a", "b">>
    /\ Len(tables[collname].rows) = 2

\* C2: insert, update, ensure_index, copy, delete with a filter, find,
\* find_one and count never take a column away from a collection: from one
\* state to the next every collection keeps its columns, unless it is the
\* collection that delete() without a filter has just dropped.
C2_ColumnsOnlyGrow ==
    [][\A n \in Names :
          \/ ColSet(tables, n) \subseteq ColSet(tables', n)
          \/ /\ op'.name = "delete" /\ op'.args = {} /\ op'.err = ""
             /\ n = collname
             /\ tables'[n] = NoTable]_vars

\* A delete with a filter has removed every row of a collection with two
\* columns, which it still has.
C2_Witness ==
    /\ op.name = "delete" /\ op.args = {"a"} /\ op.err = ""
    /\ tables[collname].cols = <<"a", "b">>
    /\ tables[collname].rows = << >>

\* The fields of a stored row that are not NULL
NonNull(row) == {k \in DOMAIN row : row[k].t # "none"}

\* The document is the decoded row: its fields without the NULL ones, and no
\* field of it is None
Decoded(doc, row) ==
    /\ KeySet(doc) = NonNull(row)
    /\ \A k \in KeySet(doc) : Get(doc, k).t # "none" /\ Get(doc, k) = _coerce_back_(row[k])

\* C3: the documents find yields, and the one find_one returns, have exactly
\* the fields of their rows that hold no NULL, a field added as a column by a
\* later insert is not among them, and no field of them is None.
C3_NullOmitted ==
    /\ (op.name = "find" /\ op.err = "") =>
          LET rows == Matching(tables, collname, _where_clause(op.args))
          IN /\ Len(op.ret) = Len(rows)
             /\ \A i \in 1..Len(rows) : Decoded(op.ret[i], rows[i])
    /\ (op.name = "find_one" /\ op.err = "") =>
          Decoded(op.ret, tables[collname].rows[1])

\* find has yielded two documents of a collection with the columns a and b;
\* the first was inserted without b and is yielded without b, the second has
\* both fields.
C3_Witness ==
    /\ op.name = "find" /\ op.err = "" /\ op.args = << >>
    /\ tables[collname].cols = <<"a", "b">>
    /\ Len(op.ret) = 2
    /\ keys(op.ret[1]) = <<"a">>
    /\ KeySet(op.ret[2]) = {"a", "b"}

\* C6: after N >= 1 documents were inserted into a fresh collection, count()
\* without a filter returns the integer N.
C6_CountReturnsInteger ==
    (op.name = "count" /\ op.err = "") =>
        PyEq(op.ret, IntV(Len(tables[collname].rows)))

\* The outcome of a method: what it raises and what it returns
Outcome(r) == <<r.err, r.ret>>

\* C10: delete() without a filter on a collection that was never created
\* raises nothing, sends no schema-changing statement and leaves the
\* database as it is; on an existing collection it removes the table, and
\* then the collection has no columns, find yields nothing and count()
\* does what it does on a collection never created.
C10_DeleteAll ==
    [][(op'.name = "delete" /\ op'.args = {}) =>
          /\ op'.err = ""
          /\ ~Exists(tables, collname) => (~op'.ddl /\ tables' = tables)
          /\ tables' = [tables EXCEPT ![collname] = NoTable]
          /\ ColSet(tables', collname) = {}
          /\ \A b \in 1..MaxBatchSize :
                /\ Outcome(FindList(tables', find(collname, None, b, None, 0, << >>), Transport))
                      = <<"", << >> >>
                /\ Outcome(count(tables', collname, b, << >>, Transport))
                      = Outcome(count([n \in Names |-> NoTable], collname, b, << >>,
                                      Transport))]_vars

\* delete() has dropped a collection that had been copied to another one,
\* which is still there.
C10_Witness ==
    /\ op.name = "delete" /\ op.args = {} /\ op.err = "" /\ op.ddl
    /\ tables[collname] = NoTable
    /\ \E n \in Names : Exists(tables, n)

-----------------------------------------------------------------------------
(* A find generator read page by page over a collection that is filled     *)
(* before the generator is made and left alone afterwards.                 *)

FindDocs ==
    { << <<"a", IntV(1)>> >>,
      << <<"a", IntV(2)>>, <<"b", ListV(<<1>>)>> >>,
      << <<"b", NoneV>>, <<"a", BoolV(1)>> >> }

InitFind ==
    /\ tables = [n \in Names |-> NoTable]
    /\ collname = "C"
    /\ op = [name |-> "inserted", docs |-> << >>]
    /\ cursor = NoCursor
    /\ clients = NoClients
    /\ server = NoServer

\* C.insert(d), before the generator exists
FillInsert ==
    /\ cursor = NoCursor
    /\ Len(op.docs) < MaxFindRows
    /\ \E d \in FindDocs, tr \in Transports :
         \E order \in OrdersOf(KeySet(d)) :
            LET r == insert(tables, collname, d, FALSE, << >>, order, << >>, tr)
            IN /\ tables' = r.db
               /\ op' = [op EXCEPT !.docs = IF r.err = "" THEN Append(@, d) ELSE @]
    /\ UNCHANGED <<collname, cursor, clients, server>>

\* it = C.find(batch_size=b)
StartFind ==
    /\ cursor = NoCursor
    /\ \E batch_size \in 1..MaxBatchSize :
          cursor' = find(collname, None, batch_size, None, 0, << >>)
    /\ UNCHANGED <<tables, collname, op, clients, server>>

\* The consumer takes the documents of the next page
NextPage ==
    /\ cursor.state = "open"
    /\ \E tr \in Transports : cursor' = FindPage(tables, cursor, tr)
    /\ UNCHANGED <<tables, collname, op, clients, server>>

NextFind == FillInsert \/ StartFind \/ NextPage

SpecFind == InitFind /\ [][NextFind]_vars

\* The document find is to yield for the inserted document d: its fields
\* that are not None, with values equal to those inserted
SameDocument(found, d) ==
    /\ KeySet(found) = {k \in KeySet(d) : Get(d, k).t # "none"}
    /\ \A k \in KeySet(found) : PyEq(Get(found, k), Get(d, k))

\* C4: find(batch_size=b), b >= 1, without limit, read to exhaustion over a
\* collection of N documents nobody modifies, yields the N documents, each
\* once, and raises nothing.
C4_FindYieldsAll ==
    /\ cursor.state \in {"none", "open", "done"}
    /\ cursor.state = "done" =>
          /\ Len(cursor.out) = Len(op.docs)
          /\ \A i \in 1..Len(op.docs) : SameDocument(cursor.out[i], op.docs[i])

\* Three documents were read in pages of two: two full requests and the
\* empty page that ends the loop.
C4_Witness ==
    /\ cursor.state = "done"
    /\ cursor.batch_size = 2
    /\ Len(op.docs) = 3
    /\ cursor.pages = 3

-----------------------------------------------------------------------------
(* Two clients of one server, each inside one call of insert or update on  *)
(* the same collection.  The server serves one request at a time, so a     *)
(* step is one request: the PRAGMA that reads the columns, the CREATE      *)
(* TABLE, one ALTER TABLE, the INSERT or UPDATE.                           *)

Clients == {1, 2}
Methods == {"insert", "update"}
RaceDocs ==
    { << <<"x", IntV(1)>> >>,
      << <<"y", IntV(2)>> >>,
      << <<"a", IntV(2)>>, <<"x", IntV(1)>> >> }

\* The collection before the two calls: never created, or holding {a: 1}
RaceTables ==
    { [n \in Names |-> NoTable],
      insert([n \in Names |-> NoTable], "C", << <<"a", IntV(1)>> >>, FALSE,
             << >>, <<"a">>, << >>, "local").db }

InitRace ==
    /\ tables \in RaceTables
    /\ collname = "C"
    /\ op = [name |-> "race", before |-> tables[collname].cols,
             nrows |-> Len(tables[collname].rows)]
    /\ cursor = NoCursor
    /\ clients \in [Clients -> [pc : {"start"}, method : Methods, d : RaceDocs,
                                tr : Transports, cols : {<< >>}, new : {<< >>}]]
    /\ server = NoServer

\* cur = self._columns(), and what the method decides from it
ReadColumns(i) ==
    LET c == clients[i]
        cur == _columns(tables, << >>, collname, c.tr)
    IN /\ c.pc = "start"
       /\ \E order \in OrdersOf(KeySet(c.d)) :
            LET new == MissingKeys(KeySet(c.d), cur.ret, order)
                pc == IF c.method = "insert" /\ Len(cur.ret) = 0
                      THEN (IF _validate_column_names(new) # "" THEN "raised" ELSE "create")
                      ELSE IF c.method = "update" /\ new = << >> THEN "write"
                      ELSE IF _validate_column_names(new) # "" THEN "raised"
                      ELSE IF new = << >> THEN "write" ELSE "add"
            IN clients' = [clients EXCEPT ![i] = [c EXCEPT !.pc = pc, !.cols = cur.ret,
                                                           !.new = new]]
       /\ tables' = cur.db
       /\ UNCHANGED <<collname, op, cursor, server>>

\* self._create(new_columns)
CreateStep(i) ==
    LET c == clients[i]
        r == _create(tables, << >>, collname, c.new, c.tr)
    IN /\ c.pc = "create"
       /\ tables' = r.db
       /\ clients' = [clients EXCEPT ![i].pc = IF r.err = "" THEN "write" ELSE "raised"]
       /\ UNCHANGED <<collname, op, cursor, server>>

\* One turn of the loop of _add_columns
AddStep(i) ==
    LET c == clients[i]
        r == AddEachColumn(tables, << >>, collname, <<Head(c.new)>>, c.tr)
    IN /\ c.pc = "add"
       /\ tables' = r.db
       /\ clients' = [clients EXCEPT ![i] =
                        IF r.err # "" THEN [c EXCEPT !.pc = "raised"]
                        ELSE [c EXCEPT !.new = Tail(@),
                                       !.pc = IF Tail(c.new) = << >> THEN "write" ELSE "add"]]
       /\ UNCHANGED <<collname, op, cursor, server>>

\* The INSERT of insert, the UPDATE of update
WriteStep(i) ==
    LET c == clients[i]
        r == IF c.method = "insert" THEN InsertOne(tables, << >>, collname, c.d, c.tr)
             ELSE UpdateSet(tables, << >>, collname, c.d, << >>, c.tr)
    IN /\ c.pc = "write"
       /\ tables' = r.db
       /\ clients' = [clients EXCEPT ![i].pc = IF r.err = "" THEN "done" ELSE "raised"]
       /\ UNCHANGED <<collname, op, cursor, server>>

NextRace ==
    \E i \in Clients : ReadColumns(i) \/ CreateStep(i) \/ AddStep(i) \/ WriteStep(i)

SpecRace == InitRace /\ [][NextRace]_vars

\* The columns client i's document has and the collection had not
NewOf(i) == KeySet(clients[i].d) \ Range(op.before)

\* Both clients have read the columns, and read them as they were before
\* either call changed anything
BothReadBefore ==
    \A i \in Clients : clients[i].pc # "start" /\ clients[i].cols = op.before

\* A row of the collection stores the document d and nothing else
Stored(d) ==
    \E j \in 1..Len(tables[collname].rows) :
        \A k \in ColSet(tables, collname) :
            tables[collname].rows[j][k] =
                IF k \in KeySet(d) THEN _coerce_(Get(d, k)) ELSE NoneV

DisjointInserts ==
    /\ op.name = "race" /\ op.before # << >>
    /\ \A i \in Clients : clients[i].method = "insert"
    /\ NewOf(1) \cap NewOf(2) = {}

\* C7: two clients insert at the same time into an existing collection
\* documents whose new columns are disjoint: in every interleaving of their
\* requests no client has an exception raised, and when both are done both
\* rows are stored and the columns are the former ones with the new ones.
C7_DisjointInsertsSucceed ==
    DisjointInserts =>
        /\ \A i \in Clients : clients[i].pc # "raised"
        /\ (\A i \in Clients : clients[i].pc = "done") =>
              /\ ColSet(tables, collname) = Range(op.before) \cup NewOf(1) \cup NewOf(2)
              /\ Len(tables[collname].rows) = op.nrows + 2
              /\ \A i \in Clients : Stored(clients[i].d)

\* One client added x, the other y, after both had read the columns {a}.
C7_Witness ==
    /\ DisjointInserts /\ BothReadBefore
    /\ NewOf(1) = {"x"} /\ NewOf(2) = {"y"}
    /\ \A i \in Clients : clients[i].pc = "done"

SameNewColumn ==
    /\ op.name = "race" /\ op.before # << >>
    /\ NewOf(1) = NewOf(2) /\ NewOf(1) # {}
    /\ BothReadBefore

\* C8: two clients extend an existing collection by the same new column,
\* both having read the columns before either added it: the ALTER TABLE of
\* the second fails in SQLite, _add_columns swallows the failure, neither
\* insert/update raises, and the column exists once.
C8_SameColumnSwallowed ==
    SameNewColumn =>
        /\ \A i \in Clients : clients[i].pc # "raised"
        /\ \A k \in NewOf(1) :
              Cardinality({j \in 1..Len(tables[collname].cols) :
                              tables[collname].cols[j] = k}) <= 1

-----------------------------------------------------------------------------
(* The Batch Grouper on its own: _constant_key_grouping of one list *)

GroupDocs ==
    AllOrders(<< <<"a", IntV(1)>>, <<"b", IntV(2)>> >>)
    \cup { << <<"a", IntV(1)>> >>, << <<"a", IntV(2)>> >>, << >> }

InitGroup ==
    /\ tables = NoTables
    /\ collname = "C"
    /\ cursor = NoCursor
    /\ clients = NoClients
    /\ server = NoServer
    /\ \E d \in SeqsUpTo(GroupDocs, MaxGroupInput) :
          op = [name |-> "_constant_key_grouping", pc |-> "call", d |-> d]

\* _constant_key_grouping(d); x.values() comes in any order of the keys of x
DoGroup ==
    /\ op.name = "_constant_key_grouping" /\ op.pc = "call"
    /\ \E gperm \in Perms(Len(_constant_key_grouping(op.d))) :
          op' = [name |-> "_constant_key_grouping", pc |-> "done", d |-> op.d,
                 ret |-> Permuted(_constant_key_grouping(op.d), gperm)]
    /\ UNCHANGED <<tables, collname, cursor, clients, server>>

NextGroup == DoGroup

SpecGroup == InitGroup /\ [][NextGroup]_vars

\* How often a occurs in the sequence s
RECURSIVE Occurrences(_, _)
Occurrences(a, s) ==
    IF s = << >> THEN 0
    ELSE (IF Head(s) = a THEN 1 ELSE 0) + Occurrences(a, Tail(s))

RECURSIVE Flatten(_)
Flatten(ss) == IF ss = << >> THEN << >> ELSE Head(ss) \o Flatten(Tail(ss))

\* g is s with some elements left out, the others in the order of s
RECURSIVE IsSubsequence(_, _)
IsSubsequence(g, s) ==
    IF g = << >> THEN TRUE
    ELSE IF s = << >> THEN FALSE
    ELSE IF Head(g) = Head(s) THEN IsSubsequence(Tail(g), Tail(s))
    ELSE IsSubsequence(g, Tail(s))

GroupingDone == op.name = "_constant_key_grouping" /\ op.pc = "done"

\* C9: the groups partition the input list: every document of the input is in
\* the groups exactly as often as in the input, no group is empty, the
\* documents of one group have the same key set, and each group lists its
\* documents in the order they have in the input.
C9_GroupsPartition ==
    GroupingDone =>
        /\ \A a \in Range(op.d) \cup Range(Flatten(op.ret)) :
              Occurrences(a, Flatten(op.ret)) = Occurrences(a, op.d)
        /\ \A j \in 1..Len(op.ret) :
              /\ op.ret[j] # << >>
              /\ \A i \in 1..Len(op.ret[j]) : KeySet(op.ret[j][i]) = KeySet(op.ret[j][1])
              /\ IsSubsequence(op.ret[j], op.d)

\* A list of three documents, two of them with the same keys and a third
\* between them, has been grouped into two groups.
C9_Witness ==
    /\ GroupingDone
    /\ Len(op.d) = 3
    /\ keys(op.d[1]) = keys(op.d[3])
    /\ keys(op.d[1]) # keys(op.d[2])
    /\ op.d[1] # op.d[3]
    /\ Len(op.ret) = 2

-----------------------------------------------------------------------------
(* One application that fills, drops and renames a collection and then     *)
(* makes one query through a handle db.C or db.D.                          *)

MaxLimit == 2           \* the largest explicit limit of a query
MaxOffset == 1          \* the largest offset of a query

QueryDocs ==
    { << <<"x", IntV(1)>> >>,
      << <<"x", StrV(<<97>>)>>, <<"y", IntV(1)>> >>,
      << <<"x", StrV(<<92>>)>> >>,
      << <<"y", ListV(<<1>>)>> >> }

QueryFilters ==
    { << >>,
      << <<"x", IntV(1)>> >>,
      << <<"x", UnicodeV(<<97>>)>>, <<"y", BoolV(1)>> >>,
      << <<"x", StrV(<<92>>)>> >>,
      << <<"x", StrV(<<39>>)>> >>,
      << <<"y", ListV(<<1>>)>> >>,
      << <<"z", IntV(1)>> >> }

QueryFields == {None, Some(<<"x">>)}
QueryLimits == {None} \cup {Some(l) : l \in 0..MaxLimit}

\* gone: the names of the tables that were dropped or renamed away
InitQuery ==
    /\ tables = [n \in Names |-> NoTable]
    /\ collname = "C"
    /\ op = [name |-> "setup", gone |-> {}]
    /\ cursor = NoCursor
    /\ clients = NoClients
    /\ server = NoServer

\* C.insert(d)
QInsert ==
    /\ op.name = "setup"
    /\ TotalRows(tables) < MaxFindRows
    /\ \E d \in QueryDocs, tr \in Transports :
         \E order \in OrdersOf(KeySet(d)) :
            tables' = insert(tables, collname, d, FALSE, << >>, order, << >>, tr).db
    /\ UNCHANGED <<collname, op, cursor, clients, server>>

\* C.delete()
QDelete ==
    /\ op.name = "setup"
    /\ \E tr \in Transports :
         LET r == delete(tables, collname, << >>, tr)
         IN /\ tables' = r.db
            /\ op' = [op EXCEPT !.gone = IF r.db # tables THEN @ \cup {collname} ELSE @]
    /\ UNCHANGED <<collname, cursor, clients, server>>

\* C.rename(new_name)
QRename ==
    /\ op.name = "setup"
    /\ \E new_name \in Names \ {collname}, tr \in Transports :
         LET r == rename(tables, collname, new_name, tr)
         IN /\ tables' = r.db
            /\ collname' = r.ret
            /\ op' = [op EXCEPT !.gone = IF r.err = "" THEN (@ \cup {collname}) ELSE @]
    /\ UNCHANGED <<cursor, clients, server>>

\* list(db.n.find(fields=, batch_size=, limit=, offset=, **kwds)); sel is
\* the LIMIT and OFFSET of the statement sent last
QFind ==
    /\ op.name = "setup"
    /\ \E n \in Names, fields \in QueryFields, batch_size \in 1..MaxBatchSize,
          limit \in QueryLimits, offset \in 0..MaxOffset, kwds \in QueryFilters,
          tr \in Transports :
         LET e == Exhaust(tables, find(n, fields, batch_size, limit, offset, kwds), tr)
         IN op' = [name |-> "find", gone |-> op.gone, n |-> n, fields |-> fields,
                   batch_size |-> batch_size, limit |-> limit, offset |-> offset,
                   kwds |-> kwds, err |-> IF e.state = "done" THEN "" ELSE e.state,
                   ret |-> e.out, pages |-> e.pages,
                   sel |-> <<e.cmd.limit, e.cmd.offset>>]
    /\ UNCHANGED <<tables, collname, cursor, clients, server>>

\* db.n.find_one(fields=, batch_size=, offset=, **kwds)
QFindOne ==
    /\ op.name = "setup"
    /\ \E n \in Names, fields \in QueryFields, batch_size \in 1..MaxBatchSize,
          offset \in 0..MaxOffset, kwds \in QueryFilters, tr \in Transports :
         LET r == find_one(tables, n, fields, batch_size, offset, kwds, tr)
         IN /\ tables' = r.db
            /\ op' = [name |-> "find_one", gone |-> op.gone, n |-> n, fields |-> fields,
                      batch_size |-> batch_size, offset |-> offset, kwds |-> kwds,
                      err |-> r.err, ret |-> r.ret]
    /\ UNCHANGED <<collname, cursor, clients, server>>

NextQuery == QInsert \/ QDelete \/ QRename \/ QFind \/ QFindOne

SpecQuery == InitQuery /\ [][NextQuery]_vars

\* C11: find on a collection whose table does not exist, because it was
\* never created, was dropped by delete() or was renamed away, yields
\* nothing and raises nothing, whatever the filter, the fields, the limit,
\* the offset and the batch_size are.
C11_FindOnMissingTable ==
    (op.name = "find" /\ ~Exists(tables, op.n)) => (op.err = "" /\ op.ret = << >>)

\* find with a filter, fields, a limit and an offset on the old name of a
\* collection that was renamed and still holds documents under its new name
C11_Witness ==
    /\ op.name = "find" /\ ~Exists(tables, op.n)
    /\ op.n \in op.gone /\ op.n # collname
    /\ Len(tables[collname].rows) > 0
    /\ op.kwds # << >> /\ op.fields # None /\ op.limit = Some(1) /\ op.offset = 1
    /\ op.err = "" /\ op.ret = << >>

\* C12: find_one returns the first document find yields for the same
\* filter, fields and offset when find yields one; it raises ValueError
\* exactly when find yields nothing and raises nothing, a collection never
\* created included; and it leaves the database as it is.
C12_FindOneIsFirstOfFind ==
    [][op'.name = "find_one" =>
          /\ tables' = tables
          /\ \A tr \in Transports :
               LET e == Exhaust(tables, find(op'.n, op'.fields, op'.batch_size, None,
                                            op'.offset, op'.kwds), tr)
               IN /\ e.out # << >> => (op'.err = "" /\ op'.ret = e.out[1])
                  /\ (e.out = << >> /\ e.state = "done") <=> op'.err = "ValueError"]_vars

\* find_one with a filter and offset 1 has returned the second of the
\* documents that match, which has the field y as well
C12_Witness ==
    /\ op.name = "find_one" /\ op.err = ""
    /\ op.offset = 1 /\ keys(op.kwds) = <<"x", "y">> /\ op.fields = None
    /\ Len(tables[op.n].rows) = 3
    /\ KeySet(op.ret) = {"x", "y"}

\* C13: find with an explicit limit L >= 0 on an existing collection sends
\* exactly one SELECT, with LIMIT L and the given OFFSET (none at all when
\* the table does not exist), yields at most L documents and then stops,
\* whatever batch_size is and however many more documents match.
C13_LimitOnePage ==
    (op.name = "find" /\ op.limit # None) =>
        /\ op.pages = (IF Exists(tables, op.n) THEN 1 ELSE 0)
        /\ op.sel = <<op.limit[1], op.offset>>
        /\ Len(op.ret) <= op.limit[1]

\* find(limit=1, batch_size=2) over three documents that all match has
\* yielded one document with one SELECT
C13_Witness ==
    /\ op.name = "find" /\ op.err = ""
    /\ op.limit = Some(1) /\ op.batch_size = 2 /\ op.kwds = << >> /\ op.offset = 0
    /\ Len(tables[op.n].rows) = 3
    /\ op.pages = 1 /\ Len(op.ret) = 1

-----------------------------------------------------------------------------
(* Calls of insert, update and ensure_index with field names of which some *)
(* contain a double quote.                                                 *)

ValidateDocs ==
    { << <<"a", IntV(1)>> >>,
      << <<"b", IntV(1)>> >>,
      << <<"q\"", IntV(1)>> >>,
      << <<"c", IntV(1)>>, <<"q\"", IntV(2)>> >> }
ValidateIndexes ==
    { << <<"a", 1>> >>, << <<"q\"", 1>> >>, << <<"c", 0 - 1>>, <<"q\"", 1>> >> }

InitValidate ==
    /\ tables = [n \in Names |-> NoTable]
    /\ collname = "C"
    /\ op = Idle
    /\ cursor = NoCursor
    /\ clients = NoClients
    /\ server = NoServer

\* The call name(...) with the field names ks returned r or raised r.err
Validated(name, ks, r) ==
    /\ TotalRows(r.db) <= MaxRows
    /\ tables' = r.db
    /\ op' = [name |-> name, keys |-> ks, err |-> r.err, stmts |-> r.stmts]
    /\ UNCHANGED <<collname, cursor, clients, server>>

VInsert ==
    \E d \in ValidateDocs, tr \in Transports :
      \E order \in OrdersOf(KeySet(d)) :
        Validated("insert", KeySet(d),
                  insert(tables, collname, d, FALSE, << >>, order, << >>, tr))

VInsertList ==
    \E d \in SeqsUpTo(ValidateDocs, MaxBatch) \ {<< >>}, tr \in Transports :
      \E order \in OrdersOf(UNION {KeySet(d[i]) : i \in 1..Len(d)}),
         gperm \in Perms(Len(_constant_key_grouping(d))) :
        Validated("insert", UNION {KeySet(d[i]) : i \in 1..Len(d)},
                  insert(tables, collname, d, TRUE, << >>, order, gperm, tr))

VUpdate ==
    \E d \in ValidateDocs, kwds \in Filters, tr \in Transports :
      \E order \in OrdersOf(KeySet(d)) :
        Validated("update", KeySet(d), update(tables, collname, d, kwds, order, tr))

VEnsureIndex ==
    \E kwds \in ValidateIndexes, tr \in Transports :
        Validated("ensure_index", KeySet(kwds), ensure_index(tables, collname, kwds, tr))

NextValidate == VInsert \/ VInsertList \/ VUpdate \/ VEnsureIndex

SpecValidate == InitValidate /\ [][NextValidate]_vars

\* C14: an insert, update or ensure_index of which a field name contains a
\* double quote raises ValueError after having sent nothing but the PRAGMA
\* that reads the columns: the tables, their columns, rows and indexes are
\* what they were, also when other new field names of the call are valid.
C14_QuotedNameRejected ==
    [][(op'.name \in {"insert", "update", "ensure_index"}
           /\ op'.keys \cap QuotedNames # {}) =>
          /\ op'.err = "ValueError"
          /\ \A i \in 1..Len(op'.stmts) : op'.stmts[i] = "PRAGMA"
          /\ tables' = tables]_vars

\* ensure_index(c=-1, q"=1) has raised ValueError on a collection that has
\* rows and an index, and c, which is new and valid, is no column
C14_Witness ==
    /\ op.name = "ensure_index" /\ op.keys = {"c", "q\""} /\ op.err = "ValueError"
    /\ Len(tables[collname].rows) = 2
    /\ tables[collname].idx # {}
    /\ "c" \notin ColSet(tables, collname)

-----------------------------------------------------------------------------
(* LocalServer (and the execute of Server._run, which is the same code):   *)
(* the cache _dbs of connections and the requests run on them.  Here       *)
(* tables maps each database file to what is committed in it.  A           *)
(* connection is [id, work, intx]: the number of the sqlite3.connect call  *)
(* that made it, the database as its statements see it, and whether it has *)
(* a transaction open.                                                     *)

MaxCmds == 2            \* statements in one request

Files == {"default", ":memory:"}

\* os.path.join(self.directory, file) if file != ':memory:' else file
Path(file) == IF file # ":memory:" THEN <<"directory", file>> ELSE <<file>>
Paths == {Path(f) : f \in Files}

EmptyDb == [n \in Names |-> NoTable]

\* The statements of a request: <<kind, columns, values>> on the table C
Cmds ==
    { <<"CREATE", <<"a">>, << >> >>,
      <<"INSERT", <<"a">>, <<IntV(1)>> >>,
      <<"INSERT", <<"b">>, <<IntV(1)>> >>,
      <<"SELECT", << >>, << >> >> }

\* What a statement does to a database
Statement(dbase, c) ==
    CASE c[1] = "CREATE" -> CreateTable(dbase, "C", c[2])
      [] c[1] = "INSERT" -> InsertRow(dbase, "C", c[2], c[3])
      [] OTHER -> Select(dbase, "C", None, << >>, 0 - 1, 0)

\* self.db(file): the cached connection, or a new one that is cached
ReconnectDb(srv, disk, file) ==
    LET h == [id |-> srv.connects + 1, work |-> disk[file], intx |-> FALSE]
    IN [srv |-> [_dbs |-> [f \in DOMAIN srv._dbs \cup {file} |->
                             IF f = file THEN h ELSE srv._dbs[f]],
                 connects |-> srv.connects + 1],
        h |-> h]
LocalServer_db(srv, disk, file) ==
    IF file \in DOMAIN srv._dbs
    THEN [srv |-> srv, h |-> srv._dbs[file]]
    ELSE LET h == [id |-> srv.connects + 1, work |-> disk[file], intx |-> FALSE]
         IN [srv |-> [_dbs |-> [f \in DOMAIN srv._dbs \cup {file} |->
                                  IF f = file THEN h ELSE srv._dbs[f]],
                      connects |-> srv.connects + 1],
             h |-> h]

\* cursor.execute(c) on the connection h of the module sqlite3: BEGIN is
\* sent before an INSERT when no transaction is open; before a statement
\* that is neither INSERT nor SELECT the open transaction is committed, and
\* the statement is committed as it is executed.
CursorExecute(h, committed, c) ==
    With(Statement(h.work, c), LAMBDA r :
        CASE c[1] = "INSERT" ->
               [err |-> r.err, h |-> [h EXCEPT !.work = r.db, !.intx = TRUE],
                committed |-> committed, rows |-> r.rows]
          [] c[1] = "SELECT" ->
               [err |-> r.err, h |-> h, committed |-> committed, rows |-> r.rows]
          [] OTHER ->
               [err |-> r.err, h |-> [h EXCEPT !.work = r.db, !.intx = FALSE],
                committed |-> r.db, rows |-> r.rows])

\* for c in cmds: ... v.extend(list(o)), up to the statement that raises
RECURSIVE RunCmds(_, _, _, _)
RunCmds(h, committed, cmds, v) ==
    IF cmds = << >> THEN [err |-> "", h |-> h, committed |-> committed, v |-> v]
    ELSE With(CursorExecute(h, committed, Head(cmds)), LAMBDA r :
            IF r.err # ""
            THEN [err |-> "RuntimeError", h |-> r.h, committed |-> r.committed, v |-> << >>]
            ELSE RunCmds(r.h, r.committed, Tail(cmds), v \o r.rows))

\* LocalServer.execute(cmds, t, file): db.commit() and return v when no
\* statement raised; the connection stays in _dbs as the request left it
LocalServer_execute(srv, disk, file, cmds) ==
    With(LocalServer_db(srv, disk, Path(file)), LAMBDA d :
    With(RunCmds(d.h, disk[Path(file)], cmds, << >>), LAMBDA r :
    With(IF r.err = "" THEN [r.h EXCEPT !.intx = FALSE] ELSE r.h, LAMBDA h :
        [err |-> r.err, v |-> r.v,
         srv |-> [d.srv EXCEPT !._dbs[Path(file)] = h],
         disk |-> [disk EXCEPT ![Path(file)] =
                      IF r.err = "" THEN h.work ELSE r.committed]])))

\* The request as one transaction: all of its statements or none
RECURSIVE Atomic(_, _, _)
Atomic(dbase, cmds, v) ==
    IF cmds = << >> THEN [err |-> "", db |-> dbase, v |-> v]
    ELSE With(Statement(dbase, Head(cmds)), LAMBDA r :
            IF r.err # "" THEN [err |-> "RuntimeError", db |-> dbase, v |-> << >>]
            ELSE With(Atomic(r.db, Tail(cmds), v \o r.rows), LAMBDA rest :
                    IF rest.err # "" THEN [rest EXCEPT !.db = dbase] ELSE rest))

\* requested: the names db was called with so far; expect: each file as the
\* requests that succeeded have made it
InitServer ==
    /\ tables = [f \in Paths |-> EmptyDb]
    /\ collname = "C"
    /\ op = [name |-> "none", requested |-> {}, expect |-> [f \in Paths |-> EmptyDb]]
    /\ cursor = NoCursor
    /\ clients = NoClients
    /\ server = [_dbs |-> << >>, connects |-> 0]

\* con = s.db(file)
Resolve ==
    /\ \E file \in Paths :
         \E d \in {LocalServer_db(server, tables, file)} :
            /\ server' = d.srv
            /\ op' = [name |-> "db", file |-> file, ret |-> d.h.id,
                      requested |-> op.requested \cup {file}, expect |-> op.expect]
    /\ UNCHANGED <<tables, collname, cursor, clients>>

\* s.execute(cmds, None, file)
Request ==
    /\ \E file \in Files, cmds \in SeqsUpTo(Cmds, MaxCmds) :
         \E r \in {LocalServer_execute(server, tables, file, cmds)},
            a \in {Atomic(op.expect[Path(file)], cmds, << >>)} :
            /\ SumRows([n \in DOMAIN r.srv._dbs |-> r.srv._dbs[n].work["C"]],
                       DOMAIN r.srv._dbs) <= MaxRows
            /\ server' = r.srv
            /\ tables' = r.disk
            /\ op' = [name |-> "execute", err |-> r.err, ret |-> r.v, atomic |-> a.v,
                      requested |-> op.requested \cup {Path(file)},
                      expect |-> [op.expect EXCEPT ![Path(file)] = a.db]]
    /\ UNCHANGED <<collname, cursor, clients>>

NextServer == Resolve \/ Request

SpecServer == InitServer /\ [][NextServer]_vars

\* C15: a request of several statements is atomic: what is committed in a
\* file, and what a request that succeeds reads, is what the requests that
\* succeeded have written, and nothing of a request of which a statement
\* failed.
C15_RequestAtomic ==
    /\ \A f \in Paths : tables[f] = op.expect[f]
    /\ (op.name = "execute" /\ op.err = "") => op.ret = op.atomic

\* C16: _dbs holds one connection for each name db was ever called with and
\* no other, each from a connect of its own; db of a cached name returns
\* the cached connection and connects nothing, db of a new name connects
\* once, and no entry of _dbs is ever removed or replaced.
C16_OneHandlePerName ==
    /\ [](/\ DOMAIN server._dbs = op.requested
          /\ server.connects = Cardinality(op.requested)
          /\ \A f, g \in DOMAIN server._dbs :
                server._dbs[f].id = server._dbs[g].id => f = g)
    /\ [][/\ \A f \in DOMAIN server._dbs :
               f \in DOMAIN server'._dbs /\ server'._dbs[f].id = server._dbs[f].id
          /\ op'.name = "db" =>
               IF op'.file \in DOMAIN server._dbs
               THEN op'.ret = server._dbs[op'.file].id
                    /\ server'.connects = server.connects
               ELSE op'.ret = server.connects + 1
                    /\ server'.connects = server.connects + 1
                    /\ server'._dbs[op'.file].id = op'.ret]_vars

\* Both files have been requested, the second connection was made for the
\* in-memory database, and db has just returned the first one again
C16_Witness ==
    /\ op.name = "db" /\ op.file = Path("default") /\ op.ret = 1
    /\ op.requested = Paths
    /\ server.connects = 2
    /\ server._dbs[Path(":memory:")].id = 2

-----------------------------------------------------------------------------
(* Index names: ensure_index and indexes on the collections C and D, and   *)
(* _index_pattern with the decoding of indexes() applied to its result.    *)

MaxIndexes == 2         \* ensure_index calls that have returned

IndexSpecs ==
    { << <<"a", 1>> >>,
      << <<"a", 1>>, <<"b", 0 - 1>> >>,
      << <<"b", 1>>, <<"a", 0 - 1>> >>,
      << <<"aDESC___b", 1>> >>,
      << <<"a___b", 1>> >>,
      << <<"a b", 1>> >>,
      << <<"ab", 0 - 1>> >> }

\* kwds with its field names as texts
AsTexts(kwds) == [i \in 1..Len(kwds) |-> <<Chars(kwds[i][1]), kwds[i][2]>>]

\* ensured: the (index name, collection, specification) of every
\* ensure_index that has returned
InitIndex ==
    /\ tables = [n \in Names |-> NoTable]
    /\ collname = "C"
    /\ op = [name |-> "none", ensured |-> {}]
    /\ cursor = NoCursor
    /\ clients = NoClients
    /\ server = NoServer

\* db.n.ensure_index(**kwds)
IEnsureIndex ==
    /\ \E n \in Names, kwds \in IndexSpecs :
         LET r == ensure_index(tables, n, kwds, Transport)
             index_name == _index_pattern(n, kwds).index_name
         IN /\ r.err = "" => Cardinality(op.ensured \cup {<<index_name, n, AsDict(AsTexts(kwds))>>})
                                <= MaxIndexes
            /\ tables' = r.db
            /\ op' = [name |-> "ensure_index", n |-> n, kwds |-> kwds, err |-> r.err,
                      ensured |-> IF r.err # "" THEN op.ensured
                                  ELSE op.ensured
                                       \cup {<<index_name, n, AsDict(AsTexts(kwds))>>}]
    /\ UNCHANGED <<collname, cursor, clients, server>>

\* db.n.indexes()
IIndexes ==
    /\ \E n \in Names :
         LET r == indexes(tables, n, Transport)
         IN op' = [name |-> "indexes", n |-> n, err |-> r.err, ret |-> r.ret,
                   ensured |-> op.ensured]
    /\ UNCHANGED <<tables, collname, cursor, clients, server>>

\* cols, index_name = db.n._index_pattern(kwds), and index_name decoded as
\* indexes() decodes the names it reads
IPattern ==
    /\ \E n \in Names, kwds \in IndexSpecs :
         LET index_name == _index_pattern(n, kwds).index_name
         IN op' = [name |-> "_index_pattern", n |-> n, kwds |-> kwds,
                   index_name |-> index_name, decoded |-> DecodeIndexName(index_name),
                   ensured |-> op.ensured]
    /\ UNCHANGED <<tables, collname, cursor, clients, server>>

NextIndex == IEnsureIndex \/ IIndexes \/ IPattern

SpecIndex == InitIndex /\ [][NextIndex]_vars

\* C17: for every collection name and every non-empty map m from field
\* names without a double quote to directions 1 and -1, the name that
\* _index_pattern makes of m, decoded as indexes() decodes it, is m.
C17_IndexNameRoundTrip ==
    op.name = "_index_pattern" => AsDict(op.decoded) = AsDict(AsTexts(op.kwds))

\* C18: no two different pairs of a collection name and a specification
\* have the same index name: the ensure_index calls that returned without
\* an error have each an index name of their own.
C18_IndexNameInjective ==
    \A e, f \in op.ensured : e[1] = f[1] => e = f

\* C19: the Batch Grouper groups by the set of field names: two documents
\* of the input with the same key set are in the same group, in whatever
\* order each of them enumerates its keys, and there are as many groups as
\* distinct key sets in the input.
C19_GroupsByKeySet ==
    GroupingDone =>
        /\ \A a, b \in Range(op.d) :
              KeySet(a) = KeySet(b) =>
                 \E j \in 1..Len(op.ret) : {a, b} \subseteq Range(op.ret[j])
        /\ Len(op.ret) = Cardinality({KeySet(a) : a \in Range(op.d)})

\* The rows of the collection n that are the documents d with d[k] == v for
\* every item (k, v) of kwds
EqualRows(db, n, kwds) ==
    SelectSeq(db[n].rows,
              LAMBDA row : \A i \in 1..Len(kwds) :
                  /\ kwds[i][1] \in NonNull(row)
                  /\ PyEq(_coerce_back_(row[kwds[i][1]]), kwds[i][2]))

\* C20: find with keyword filters k1=v1, ..., kn=vn, the values integers,
\* texts or lists, and nothing else yields the stored documents d with
\* d[ki] == vi for every i, in their order, and no other: none that lacks a
\* filtered field.
C20_FilterEquality ==
    (op.name = "find" /\ op.fields = None /\ op.limit = None /\ op.offset = 0
        /\ Exists(tables, op.n)) =>
        LET rows == EqualRows(tables, op.n, op.kwds)
            cols == tables[op.n].cols
        IN op.ret = [i \in 1..Len(rows) |->
                        DecodeRow(cols, [j \in 1..Len(cols) |-> rows[i][cols[j]]])]

-----------------------------------------------------------------------------
(* One application that fills and indexes the collections C and D and then *)
(* makes one call on the handle db.C, of which op keeps the arguments and  *)
(* the outcome.                                                            *)

MaxCallRows == 2        \* documents inserted before the call

CallDocs ==
    { << <<"a", IntV(1)>> >>,
      << <<"a", IntV(2)>>, <<"b", StrV(<<120>>)>> >>,
      << <<"b", ListV(<<1>>)>> >> }

CallFilters ==
    { << <<"a", BoolV(1)>> >>,
      << <<"b", UnicodeV(<<120>>)>>, <<"a", IntV(2)>> >>,
      << <<"b", ListV(<<1>>)>> >>,
      << <<"c", IntV(1)>> >> }

CallUpdates ==
    { << >>,
      << <<"b", ListV(<<1>>)>> >>,
      << <<"c", NoneV>>, <<"a", IntV(2)>> >>,
      << <<"c", UnicodeV(<<120>>)>> >> }

InitCall ==
    /\ tables = [n \in Names |-> NoTable]
    /\ collname = "C"
    /\ op = [name |-> "setup"]
    /\ cursor = NoCursor
    /\ clients = NoClients
    /\ server = NoServer

\* db.n.insert(d)
CFill ==
    /\ op.name = "setup"
    /\ TotalRows(tables) < MaxCallRows
    /\ \E n \in Names, d \in CallDocs :
         \E order \in OrdersOf(KeySet(d)) :
            tables' = insert(tables, n, d, FALSE, << >>, order, << >>, Transport).db
    /\ UNCHANGED <<collname, op, cursor, clients, server>>

\* db.n.ensure_index(a=1)
CIndex ==
    /\ op.name = "setup"
    /\ \E n \in Names :
         tables' = ensure_index(tables, n, << <<"a", 1>> >>, Transport).db
    /\ UNCHANGED <<collname, op, cursor, clients, server>>

\* C.update(d, **kwds)
CUpdate ==
    /\ op.name = "setup"
    /\ \E d \in CallUpdates, kwds \in CallFilters \cup {<< >>}, tr \in Transports :
         \E order \in OrdersOf(KeySet(d)) :
           \E r \in {update(tables, collname, d, kwds, order, tr)} :
              /\ tables' = r.db
              /\ op' = [name |-> "update", d |-> d, kwds |-> kwds, err |-> r.err]
    /\ UNCHANGED <<collname, cursor, clients, server>>

\* C.delete(**kwds) with a filter; had: the number of documents before
CDelete ==
    /\ op.name = "setup"
    /\ \E kwds \in CallFilters, tr \in Transports :
         \E r \in {delete(tables, collname, kwds, tr)} :
            /\ tables' = r.db
            /\ op' = [name |-> "delete", kwds |-> kwds, err |-> r.err,
                      had |-> Len(tables[collname].rows)]
    /\ UNCHANGED <<collname, cursor, clients, server>>

\* The names a collection is renamed to
NewNames == Names \cup {"a b"}

\* C.rename(new_name); collname is the name of the handle
CRename ==
    /\ op.name = "setup"
    /\ \E new_name \in NewNames, tr \in Transports :
         \E r \in {rename(tables, collname, new_name, tr)} :
            /\ tables' = r.db
            /\ collname' = r.ret
            /\ op' = [name |-> "rename", new_name |-> new_name, err |-> r.err]
    /\ UNCHANGED <<cursor, clients, server>>

\* The fields argument of copy: None, columns of C, and a name no document has
CopyFields == {None, Some(<<"a">>), Some(<<"b", "a">>), Some(<<"c">>), Some(<<"a", "c">>)}

\* C.copy(collection, fields=fields, **kwds)
CCopy ==
    /\ op.name = "setup"
    /\ \E collection \in Names, fields \in CopyFields, kwds \in CallFilters \cup {<< >>} :
         \E order \in OrdersOf(ColSet(tables, collname) \cup {"a", "b", "c"}) :
           \E r \in {copy(tables, collname, collection, fields, kwds, order, Transport)} :
              /\ tables' = r.db
              /\ op' = [name |-> "copy", collection |-> collection, fields |-> fields,
                        kwds |-> kwds, err |-> r.err]
    /\ UNCHANGED <<collname, cursor, clients, server>>

\* The keys of ensure_index: none, a column, new fields, a name with a space
CallIndexKwds ==
    { << >>,
      << <<"a", 1>> >>,
      << <<"c", 0 - 1>> >>,
      << <<"c", 1>>, <<"b", 1>> >>,
      << <<"a b", 1>> >> }

\* C.ensure_index(**kwds)
CEnsureIndex ==
    /\ op.name = "setup"
    /\ \E kwds \in CallIndexKwds, tr \in Transports :
         \E r \in {ensure_index(tables, collname, kwds, tr)} :
            /\ tables' = r.db
            /\ op' = [name |-> "ensure_index", kwds |-> kwds, tr |-> tr, err |-> r.err]
    /\ UNCHANGED <<collname, cursor, clients, server>>

\* What is inserted: one document, or a list of documents whose key sets
\* differ, repeat, or come in another order
CallInserts ==
    { [d |-> << >>, isList |-> FALSE],
      [d |-> << <<"a", IntV(1)>> >>, isList |-> FALSE],
      [d |-> << >>, isList |-> TRUE],
      [d |-> << << >> >>, isList |-> TRUE],
      [d |-> << << <<"a", IntV(1)>> >>, << >> >>, isList |-> TRUE],
      [d |-> << << <<"a", IntV(1)>> >>, << <<"b", StrV(<<120>>)>> >> >>, isList |-> TRUE],
      [d |-> << << <<"a", IntV(1)>>, <<"b", StrV(<<120>>)>> >>,
                << <<"a", IntV(2)>> >>,
                << <<"b", ListV(<<1>>)>>, <<"a", IntV(2)>> >> >>, isList |-> TRUE],
      [d |-> << << <<"a", NoneV>>, <<"b", IntV(1)>> >>,
                << <<"c", IntV(2)>> >> >>, isList |-> TRUE],
      [d |-> << << <<"c", IntV(1)>> >>, << <<"a", IntV(2)>> >>,
                << <<"c", IntV(1)>> >> >>, isList |-> TRUE] }

\* C.insert(d)
CInsert ==
    /\ op.name = "setup"
    /\ \E x \in CallInserts, tr \in Transports :
         \E order \in OrdersOf(IF x.isList THEN UNION {KeySet(x.d[i]) : i \in 1..Len(x.d)}
                                ELSE KeySet(x.d)),
            gperm \in Perms(IF x.isList THEN Len(_constant_key_grouping(x.d)) ELSE 0) :
           \E r \in {insert(tables, collname, x.d, x.isList, << >>, order, gperm, tr)} :
              /\ tables' = r.db
              /\ op' = [name |-> "insert", d |-> x.d, isList |-> x.isList, err |-> r.err]
    /\ UNCHANGED <<collname, cursor, clients, server>>

\* len(C)
CLen ==
    /\ op.name = "setup"
    /\ \E tr \in Transports :
         \E r \in {__len__(tables, collname, tr)} :
            /\ tables' = r.db
            /\ op' = [name |-> "len", err |-> r.err, ret |-> r.ret]
    /\ UNCHANGED <<collname, cursor, clients, server>>

\* C.count(batch_size=batch_size, **kwds)
CCount ==
    /\ op.name = "setup"
    /\ \E batch_size \in 0..MaxBatchSize, kwds \in CallFilters \cup {<< >>},
          tr \in Transports :
         \E r \in {count(tables, collname, batch_size, kwds, tr)} :
            /\ tables' = r.db
            /\ op' = [name |-> "count", batch_size |-> batch_size, kwds |-> kwds,
                      err |-> r.err, ret |-> r.ret]
    /\ UNCHANGED <<collname, cursor, clients, server>>

NextCall ==
    \/ CFill \/ CIndex \/ CUpdate \/ CDelete \/ CRename \/ CCopy \/ CEnsureIndex
    \/ CInsert \/ CLen \/ CCount

SpecCall == InitCall /\ [][NextCall]_vars

\* The document of the row has d[k] == v for every item (k, v) of kwds
EqualDoc(row, kwds) ==
    \A i \in 1..Len(kwds) :
        /\ kwds[i][1] \in NonNull(row)
        /\ PyEq(_coerce_back_(row[kwds[i][1]]), kwds[i][2])

\* The column k of the row, NULL for a column the table did not have
Field(row, k) == IF k \in DOMAIN row THEN row[k] ELSE NoneV

\* C21: after update(d, filter) has returned on an existing collection, the
\* columns are those it had and the keys of d; there are as many documents
\* as before; a document that matched the filter has every field of d at the
\* value of d and its other fields as before, a document that did not match
\* is as before; and no other collection has changed.
C21_UpdateFrame ==
    [][(op'.name = "update" /\ op'.err = "" /\ Exists(tables, collname)) =>
          LET old == tables[collname].rows
              new == tables'[collname].rows
          IN /\ ColSet(tables', collname) = ColSet(tables, collname) \cup KeySet(op'.d)
             /\ Len(new) = Len(old)
             /\ \A i \in 1..Len(old) : \A k \in ColSet(tables', collname) :
                   IF EqualDoc(old[i], op'.kwds) /\ k \in KeySet(op'.d)
                   THEN PyEq(_coerce_back_(new[i][k]), Get(op'.d, k))
                   ELSE new[i][k] = Field(old[i], k)
             /\ \A n \in Names \ {collname} : tables'[n] = tables[n]]_vars

\* update({c: u'x'}, b=[1]) has added the column c and set it in the one
\* document of two that has b == [1]
C21_Witness ==
    /\ op.name = "update" /\ op.err = ""
    /\ KeySet(op.d) = {"c"} /\ KeySet(op.kwds) = {"b"}
    /\ Len(tables[collname].rows) = 2
    /\ tables[collname].cols[Len(tables[collname].cols)] = "c"
    /\ \E i, j \in 1..2 :
          /\ tables[collname].rows[i]["c"] = StrV(<<120>>)
          /\ tables[collname].rows[j]["c"] = NoneV

\* C22: delete with a filter on an existing collection removes the documents
\* that match the filter and no other: the documents that do not match
\* remain as they are and in their order, the collection still exists with
\* the columns and the indexes it had, also when no document is left, and no
\* other collection has changed.
C22_DeleteFrame ==
    [][(op'.name = "delete" /\ Exists(tables, collname)) =>
          /\ tables'[collname].rows =
                SelectSeq(tables[collname].rows, LAMBDA row : ~EqualDoc(row, op'.kwds))
          /\ Exists(tables', collname)
          /\ tables'[collname].cols = tables[collname].cols
          /\ tables'[collname].idx = tables[collname].idx
          /\ \A n \in Names \ {collname} : tables'[n] = tables[n]]_vars

\* delete(a=True) has removed both documents of a collection with an index,
\* which still has its columns and its index
C22_Witness ==
    /\ op.name = "delete" /\ op.err = "" /\ op.had = 2
    /\ KeySet(op.kwds) = {"a"}
    /\ tables[collname].rows = << >>
    /\ tables[collname].cols # << >>
    /\ tables[collname].idx # {}

\* What list(db.n.find()) yields or raises
Listed(db, n) == Outcome(FindList(db, find(n, None, MaxBatchSize, None, 0, << >>), Transport))

\* C23: when rename(new_name) returns, the handle has the name new_name,
\* the collection of that name has the columns and the documents the
\* collection had under the old name, find on the old name yields nothing
\* as for a collection never created, and no other collection has changed;
\* when the statement fails the handle keeps its name and nothing changes.
C23_RenameFrame ==
    [][op'.name = "rename" =>
          IF op'.err = ""
          THEN /\ collname' = op'.new_name
               /\ tables'[collname'].cols = tables[collname].cols
               /\ tables'[collname'].rows = tables[collname].rows
               /\ Listed(tables', collname') = Listed(tables, collname)
               /\ ~Exists(tables', collname)
               /\ Listed(tables', collname) = <<"", << >> >>
               /\ \A n \in Names \ {collname, collname'} : tables'[n] = tables[n]
          ELSE collname' = collname /\ tables' = tables]_vars

\* C was renamed to D with its two documents and its index
C23_Witness ==
    /\ op.name = "rename" /\ op.err = "" /\ op.new_name = "D"
    /\ collname = "D"
    /\ Len(tables["D"].rows) = 2 /\ tables["D"].idx # {}
    /\ tables["C"] = NoTable

\* The fields copy(fields=...) copies from the collection n
CopiedFields(db, n, fields) == IF fields = None THEN Range(db[n].cols) ELSE Range(fields[1])

\* The row is the document doc projected to the fields S, in a table with
\* the columns of the row
Projected(row, doc, S) ==
    \A k \in DOMAIN row : row[k] = IF k \in S THEN Field(doc, k) ELSE NoneV

\* After a copy that returned, into another collection: the source is as it
\* was, the destination has its columns and the copied fields, its documents
\* are those it had followed by the projection restricted to S of each
\* matching document of the source
CopyFrame(S) ==
    LET dest == op'.collection
        old == tables[dest].rows
        new == tables'[dest].rows
        found == SelectSeq(tables[collname].rows, LAMBDA r : EqualDoc(r, op'.kwds))
    IN /\ tables'[collname] = tables[collname]
       /\ ColSet(tables', dest) = ColSet(tables, dest) \cup S
       /\ Len(new) = Len(old) + Len(found)
       /\ \A i \in 1..Len(old) :
             \A k \in DOMAIN new[i] : new[i][k] = Field(old[i], k)
       /\ \A j \in 1..Len(found) : Projected(new[Len(old) + j], found[j], S)

\* C24: copy(dest, filter, fields) into another collection leaves the source
\* unchanged, makes the columns of the destination its previous columns and
\* the copied fields, and its documents its previous documents plus one
\* copy, projected to the copied fields, of each document of the source
\* that matches the filter, whether the destination existed or not.
C24_CopyFrame ==
    [][(op'.name = "copy" /\ op'.err = "" /\ op'.collection # collname) =>
          CopyFrame(CopiedFields(tables, collname, op'.fields))]_vars

\* The same for a copy whose fields all are columns of the source
C24_CopyOfColumns ==
    [][(/\ op'.name = "copy" /\ op'.err = "" /\ op'.collection # collname
        /\ CopiedFields(tables, collname, op'.fields) \subseteq ColSet(tables, collname)) =>
          CopyFrame(CopiedFields(tables, collname, op'.fields))]_vars

\* The two sequences have the same elements, each as many times
Times(s, x) == Cardinality({i \in DOMAIN s : s[i] = x})
SameElements(s, t) == Len(s) = Len(t) /\ \A i \in DOMAIN s : Times(s, s[i]) = Times(t, s[i])

\* C25: when ensure_index(keys) returns, every key is a column of the
\* collection (the table is created when it did not exist), and the same
\* call again raises nothing and changes nothing; whether it returns or
\* raises, find decodes the same documents as before and no other collection
\* has changed; with no keys it raises ValueError and changes nothing.
C25_EnsureIndex ==
    [][op'.name = "ensure_index" =>
          /\ op'.err = "" =>
                /\ KeySet(op'.kwds) \subseteq ColSet(tables', collname)
                /\ Exists(tables', collname)
                /\ \E again \in {ensure_index(tables', collname, op'.kwds, op'.tr)} :
                      again.err = "" /\ again.db = tables'
          /\ Listed(tables', collname)[1] = Listed(tables, collname)[1]
          /\ SameElements(Listed(tables', collname)[2], Listed(tables, collname)[2])
          /\ tables'[collname].rows # << >> => Listed(tables', collname)[2] # << >>
          /\ \A n \in Names \ {collname} : tables'[n] = tables[n]
          /\ op'.kwds = << >> => (op'.err = "ValueError" /\ tables' = tables)]_vars

\* An index on b and the new field c was made on a collection with documents
C25_Witness ==
    /\ op.name = "ensure_index" /\ op.err = ""
    /\ KeySet(op.kwds) = {"b", "c"}
    /\ {"b", "c"} \subseteq ColSet(tables, collname)
    /\ Len(tables[collname].rows) = 2
    /\ \A i \in 1..2 : tables[collname].rows[i]["c"] = NoneV
    /\ \E x \in tables[collname].idx : TRUE

\* The keys of what insert is given: of the document, or of all documents
\* of the list
InsertedKeys(d, isList) ==
    IF isList THEN UNION {KeySet(d[i]) : i \in 1..Len(d)} ELSE KeySet(d)

\* C26: insert of a document without keys, or of a list without documents
\* or of documents without keys, into a collection that does not exist
\* raises, and afterwards the collection still does not exist, has no rows,
\* and the database is as it was.
C26_InsertNothing ==
    [][(/\ op'.name = "insert"
        /\ InsertedKeys(op'.d, op'.isList) = {}
        /\ ~Exists(tables, collname)) =>
          /\ op'.err # ""
          /\ ~Exists(tables', collname)
          /\ tables'[collname].rows = << >>
          /\ Listed(tables', collname) = <<"", << >> >>
          /\ tables' = tables]_vars

\* insert([]) has raised on the collection C that was never created, while
\* D holds documents
C26_Witness ==
    /\ op.name = "insert" /\ op.isList /\ op.d = << >> /\ op.err = "RuntimeError"
    /\ tables["C"] = NoTable
    /\ Len(tables["D"].rows) = 2

\* C27: len(collection) raises nothing and changes nothing; it is 0 for a
\* collection that was never created, which it does not create, and N for
\* a collection into which N documents were inserted and none deleted.
C27_Len ==
    [][op'.name = "len" =>
          /\ op'.err = ""
          /\ tables' = tables
          /\ ~Exists(tables, collname) => op'.ret = IntV(0)
          /\ op'.ret = IntV(Len(tables[collname].rows))]_vars

\* len(C) was 0 for the collection C never created, while D holds documents
C27_Witness ==
    /\ op.name = "len" /\ op.err = "" /\ op.ret = IntV(0)
    /\ tables["C"] = NoTable
    /\ tables["D"].rows # << >>

\* len(C) was 2 after two documents were inserted
C27_WitnessTwo ==
    /\ op.name = "len" /\ op.err = "" /\ op.ret = IntV(2)
    /\ Len(tables["C"].rows) = 2

\* What list(C.find(batch_size=batch_size, **kwds)) yields or raises
Found(db, n, batch_size, kwds) ==
    Outcome(FindList(db, find(n, None, batch_size, None, 0, kwds), Transport))

\* C28: on an existing collection, for every batch_size for which find
\* with the same filter can be read to its end, count raises nothing and
\* returns the number of documents this find yields, whether they are more
\* than batch_size or not.
C28_CountIsNumberFound ==
    [][(op'.name = "count" /\ Exists(tables, collname)) =>
          \E found \in {Found(tables, collname, op'.batch_size, op'.kwds)} :
              found[1] = "" => (op'.err = "" /\ op'.ret = IntV(Len(found[2])))]_vars

\* With a batch_size of at least 1, count returns a row whose one element is
\* the number of documents find yields
C28_CountRow ==
    [][(op'.name = "count" /\ Exists(tables, collname) /\ op'.batch_size >= 1) =>
          \E found \in {Found(tables, collname, op'.batch_size, op'.kwds)} :
              /\ found[1] = op'.err
              /\ found[1] = "" => op'.ret = RowV(<<IntV(Len(found[2]))>>)]_vars

\* The documents found are the documents given, each as many times, in
\* some order
SameDocuments(found, given) ==
    /\ Len(found) = Len(given)
    /\ \E p \in Perms(Len(given)) :
          \A i \in 1..Len(given) : SameDocument(found[i], given[p[i]])

\* C29: after insert of a list L of documents has returned, the documents
\* find yields are those it yielded before and the documents of L, each as
\* many times as it is in L and each with its own fields and values, the
\* None ones left out.
C29_BatchInsert ==
    [][(op'.name = "insert" /\ op'.isList /\ op'.err = "") =>
          \E before \in {Listed(tables, collname)}, after \in {Listed(tables', collname)} :
              /\ before[1] = "" /\ after[1] = ""
              /\ SameDocuments(after[2], before[2] \o op'.d)]_vars

\* A list of three documents with two key sets, two of them with the same
\* keys in another order, was inserted into a collection with documents
C29_Witness ==
    /\ op.name = "insert" /\ op.isList /\ op.err = ""
    /\ Len(op.d) = 3
    /\ keys(op.d[1]) = <<"a", "b">> /\ keys(op.d[3]) = <<"b", "a">>
    /\ Len(tables[collname].rows) = 5


-----------------------------------------------------------------------------
(* A find generator without limit that its consumer reads to exhaustion,   *)
(* as list(C.find(batch_size=b, offset=o)) does, for every sign of b and   *)
(* o.  The consumer keeps asking for the next document while the           *)
(* generator has not returned, so a turn of the while loop of find that    *)
(* can be taken is taken: weak fairness of ScanPage.                       *)

\* SQLite reads every negative OFFSET as 0.  offset += batch_size with a
\* negative batch_size goes down without end; every offset at or below the
\* floor is kept as the floor, which sends statements with the same rows.
MaxScanRows == 2
OffsetFloor == 0 - (MaxOffset + MaxBatchSize)
AtLeastFloor(offset) == IF offset < OffsetFloor THEN OffsetFloor ELSE offset

InitScan ==
    /\ tables = [n \in Names |-> NoTable]
    /\ collname = "C"
    /\ op = [name |-> "scan", turn |-> 0]
    /\ cursor = NoCursor
    /\ clients = NoClients
    /\ server = NoServer

\* C.insert(d), before the generator exists
ScanFill ==
    /\ cursor = NoCursor
    /\ Len(tables[collname].rows) < MaxScanRows
    /\ \E d \in FindDocs :
         \E order \in OrdersOf(KeySet(d)) :
            tables' = insert(tables, collname, d, FALSE, << >>, order, << >>, Transport).db
    /\ UNCHANGED <<collname, op, cursor, clients, server>>

\* it = C.find(batch_size=b, offset=o)
ScanStart ==
    /\ cursor = NoCursor
    /\ \E batch_size \in (0 - MaxBatchSize)..MaxBatchSize,
          offset \in (0 - MaxOffset)..MaxOffset :
          cursor' = find(collname, None, batch_size, None, offset, << >>)
    /\ UNCHANGED <<tables, collname, op, clients, server>>

\* One turn of the while loop; the consumer has taken the documents of the
\* turn before, and op.turn tells one turn from the next
ScanPage ==
    /\ cursor.state = "open"
    /\ \E c \in {FindPage(tables, [cursor EXCEPT !.out = << >>, !.pages = 0], Transport)} :
          cursor' = [c EXCEPT !.offset = AtLeastFloor(@), !.cmd.offset = AtLeastFloor(@)]
    /\ op' = [op EXCEPT !.turn = 1 - @]
    /\ UNCHANGED <<tables, collname, clients, server>>

NextScan == ScanFill \/ ScanStart \/ ScanPage

SpecScan == InitScan /\ [][NextScan]_vars /\ WF_vars(ScanPage)

\* C30: a find generator without limit over a collection nobody modifies,
\* read to exhaustion, returns after finitely many turns, whatever the
\* integers batch_size and offset are.
C30_FindTerminates == (cursor.state = "open") ~> (cursor.state # "open")

\* With a batch_size of 0 or more the generator returns, whatever the offset
C30_FindTerminatesNonNegative ==
    (cursor.state = "open" /\ cursor.batch_size >= 0) ~> (cursor.state # "open")

\* With a negative batch_size over a collection with documents the
\* generator never returns: every turn yields documents again
C30_NegativeNeverReturns ==
    [][(cursor.state = "open" /\ cursor.batch_size < 0 /\ tables[collname].rows # << >>) =>
          (cursor'.state = "open" /\ cursor'.out # << >>)]_vars

\* C31: when insert of a list of documents raises, the collection holds
\* the rows it held before: no document of the list is stored, also none of
\* a group whose statement was sent before the one that was rejected.
C31_BatchAllOrNothing ==
    [][(op'.name = "insert" /\ op'.isList /\ op'.err # "") =>
          tables'[collname].rows = tables[collname].rows]_vars

\* When insert of a list raises, the rows stored are those of the groups
\* sent before the rejected one: the rows before, followed by documents of
\* the list
C31_EarlierGroupsStay ==
    [][(op'.name = "insert" /\ op'.isList /\ op'.err # "") =>
          \E k \in 0..Len(op'.d) :
              /\ Len(tables'[collname].rows) = Len(tables[collname].rows) + k
              /\ \A i \in 1..Len(tables[collname].rows) :
                    \A c \in DOMAIN tables'[collname].rows[i] :
                        tables'[collname].rows[i][c] = Field(tables[collname].rows[i], c)]_vars

\* Both clients make the first insert into the collection, which does not
\* exist, with different key sets
FirstInserts ==
    /\ op.name = "race" /\ op.before = << >>
    /\ \A i \in Clients : clients[i].method = "insert"
    /\ KeySet(clients[1].d) # KeySet(clients[2].d)

\* C32: two clients make at the same time the first insert into a
\* collection that does not exist, with different key sets: in every
\* interleaving of their requests, also when both read the empty column
\* list before either creates the table, no insert raises, and when both
\* are done both rows are stored and the columns are the keys of both.
C32_FirstInsertsSucceed ==
    FirstInserts =>
        /\ \A i \in Clients : clients[i].pc # "raised"
        /\ (\A i \in Clients : clients[i].pc = "done") =>
              /\ ColSet(tables, collname) = KeySet(clients[1].d) \cup KeySet(clients[2].d)
              /\ Len(tables[collname].rows) = 2
              /\ \A i \in Clients : Stored(clients[i].d)

\* The same when one of the clients read the columns after the table was
\* created
C32_SecondReadsAfterCreate ==
    (FirstInserts /\ \E i \in Clients : clients[i].pc # "start" /\ clients[i].cols # << >>) =>
        /\ \A i \in Clients : clients[i].pc # "raised"
        /\ (\A i \in Clients : clients[i].pc = "done") =>
              /\ ColSet(tables, collname) = KeySet(clients[1].d) \cup KeySet(clients[2].d)
              /\ Len(tables[collname].rows) = 2
              /\ \A i \in Clients : Stored(clients[i].d)

\* When both read the empty column list, the table has the keys of the
\* client whose CREATE TABLE came first, and the insert of the other raises
\* unless its keys are among them
C32_SecondCreateDoesNothing ==
    (FirstInserts /\ BothReadBefore /\ \A i \in Clients : clients[i].pc \in {"done", "raised"}) =>
        \E i \in Clients :
            /\ clients[i].pc = "done"
            /\ ColSet(tables, collname) = KeySet(clients[i].d)
            /\ \A j \in Clients \ {i} :
                  clients[j].pc = "raised" <=> ~(KeySet(clients[j].d) \subseteq KeySet(clients[i].d))


-----------------------------------------------------------------------------
(* A find generator without limit read page by page by one client, while   *)
(* another client deletes and inserts documents of the same collection     *)
(* between two page requests.  The documents are {a: 1}, {a: 2}, ..., so   *)
(* that each can be told from the others.                                  *)

MaxPagingRows == 3      \* documents in the collection when the generator starts
MaxPagingInserts == 1   \* documents the other client inserts meanwhile

PagingDoc(k) == << <<"a", IntV(k)>> >>

\* The numbers k of the documents {a: k} stored in the collection
StoredNumbers(db, n) == {db[n].rows[i]["a"].v[1] : i \in 1..Len(db[n].rows)}

\* present: the documents in the collection since the generator started;
\* inserted: how many the other client has inserted; deleted: whether it
\* has deleted one
InitPaging ==
    /\ tables = [n \in Names |-> NoTable]
    /\ collname = "C"
    /\ op = [name |-> "paging", present |-> {}, inserted |-> 0, deleted |-> FALSE]
    /\ cursor = NoCursor
    /\ clients = NoClients
    /\ server = NoServer

\* C.insert({'a': k}), before the generator exists
PagingFill ==
    /\ cursor = NoCursor
    /\ Len(tables[collname].rows) < MaxPagingRows
    /\ \E r \in {insert(tables, collname, PagingDoc(Len(tables[collname].rows) + 1), FALSE,
                        << >>, <<"a">>, << >>, Transport)} :
          tables' = r.db
    /\ UNCHANGED <<collname, op, cursor, clients, server>>

\* it = C.find(batch_size=b)
PagingStart ==
    /\ cursor = NoCursor
    /\ \E batch_size \in 1..MaxBatchSize :
          cursor' = find(collname, None, batch_size, None, 0, << >>)
    /\ op' = [op EXCEPT !.present = StoredNumbers(tables, collname)]
    /\ UNCHANGED <<tables, collname, clients, server>>

\* The consumer takes the documents of the next page
PagingPage ==
    /\ cursor.state = "open"
    /\ \E c \in {FindPage(tables, cursor, Transport)} : cursor' = c
    /\ UNCHANGED <<tables, collname, op, clients, server>>

\* The other client: C.delete(a=k), between two page requests
PagingDelete ==
    /\ cursor.state = "open" /\ cursor.pages >= 1
    /\ \E k \in StoredNumbers(tables, collname) :
         \E r \in {delete(tables, collname, PagingDoc(k), Transport)} :
            /\ tables' = r.db
            /\ op' = [op EXCEPT !.present = @ \ {k}, !.deleted = TRUE]
    /\ UNCHANGED <<collname, cursor, clients, server>>

\* The other client: C.insert({'a': k}) of a new document, between two
\* page requests
PagingInsert ==
    /\ cursor.state = "open" /\ cursor.pages >= 1
    /\ op.inserted < MaxPagingInserts
    /\ \E r \in {insert(tables, collname, PagingDoc(MaxPagingRows + 1 + op.inserted), FALSE,
                        << >>, <<"a">>, << >>, Transport)} :
          tables' = r.db
    /\ op' = [op EXCEPT !.inserted = @ + 1]
    /\ UNCHANGED <<collname, cursor, clients, server>>

NextPaging == PagingFill \/ PagingStart \/ PagingPage \/ PagingDelete \/ PagingInsert

SpecPaging == InitPaging /\ [][NextPaging]_vars

\* How many times the generator has yielded the document {a: k}
YieldedTimes(k) == Cardinality({i \in 1..Len(cursor.out) : cursor.out[i] = PagingDoc(k)})

\* C33: a document that is in the collection from the start of a find
\* without limit to its end is yielded exactly once, also when another
\* client deletes or inserts other documents between two page requests.
C33_PresentYieldedOnce ==
    /\ cursor.state \in {"none", "open", "done"}
    /\ cursor.state = "done" => \A k \in op.present : YieldedTimes(k) = 1

\* No document is yielded twice, and with inserts only every document that
\* was there from the start is yielded once
C33_AtMostOnce ==
    /\ cursor.state \in {"none", "open", "done"}
    /\ cursor.state # "none" =>
          \A k \in 1..(MaxPagingRows + MaxPagingInserts) : YieldedTimes(k) <= 1
    /\ (cursor.state = "done" /\ ~op.deleted) => \A k \in op.present : YieldedTimes(k) = 1

=============================================================================
